---- MODULE Spec2Model ----
(***************************************************************************)
(* CoolTrack (AC service tracker): the service-due-date status engine      *)
(* (AcUnitCard, Reminders page), the two dashboard aggregators             *)
(* (MemStorage.getDashboardStats, Firebase getDashboardStats) and the      *)
(* unit stores they read (MemStorage maps, Firestore collections).         *)
(*                                                                         *)
(* Time is counted in ticks; one day (1000*60*60*24 ms in the source) is   *)
(* TicksPerDay ticks.  A Date is a natural number of ticks since epoch.    *)
(***************************************************************************)
EXTENDS Integers, Sequences, FiniteSets, TLC

\* ---------------------------------------------------------------- bounds
TicksPerDay == 2
MaxUnits == 2
MaxStatUnits == 2
MaxUsers == 1
MaxPreferences == 2
MaxSessions == 1
MaxPending == 1
MaxReminders == 1
MaxAuthPending == 2
MaxRegistered == 2

\* ------------------------------------------------------ program constants
UrgentDays == 7
UpcomingDays == 30
SecondsPerDay == 86400
DefaultDaysBeforeService == 7
MinDaysBeforeService == 1
MaxDaysBeforeService == 30
MinPasswordLength == 6
NextWeekDays == 7

\* ------------------------------------------------------------- universes
\* null and undefined in a date field: negative numbers, which no Date takes
NULL == 0 - 1
UNDEFINED == 0 - 2
NONE == [op |-> "none"]
Users == {1, 2}
Locations == {"Garage", "Attic"}
Backends == {"server", "firebase"}

Day(n) == n * TicksPerDay
NowStart == Day(3)
MaxNow == NowStart + Day(1) + 1
MaxDate == MaxNow + Day(46)
\* the life of a session (24 hours)
SessionMaxAge == Day(1)
EmptyMap == [i \in {} |-> NONE]

\* ----------------------------------------------------- numeric helpers
Abs(x) == IF x < 0 THEN -x ELSE x
Sign(x) == IF x < 0 THEN -1 ELSE IF x > 0 THEN 1 ELSE 0
\* Math.floor(x / msPerDay) and Math.ceil(x / msPerDay) on a tick difference
FloorDays(diffTime) == diffTime \div TicksPerDay
CeilDays(diffTime) == -((-diffTime) \div TicksPerDay)

\* ------------------------------------------------------------- date-fns
\* calendar day of a Date (startOfDay), time zone without DST
CalDay(t) == t \div TicksPerDay
compareLocalAsc(dateLeft, dateRight) == Sign(dateLeft - dateRight)
differenceInCalendarDays(dateLeft, dateRight) == CalDay(dateLeft) - CalDay(dateRight)
differenceInDays(dateLeft, dateRight) ==
    LET sign == compareLocalAsc(dateLeft, dateRight)
        difference == Abs(differenceInCalendarDays(dateLeft, dateRight))
        shifted == dateLeft - Day(sign * difference)
        isLastDayNotFull == IF compareLocalAsc(shifted, dateRight) = -sign THEN 1 ELSE 0
    IN  sign * (difference - isLastDayNotFull)
isBefore(date, dateToCompare) == date < dateToCompare

\* ------------------------------------------- Firestore / JS conversions
SecondsPerTick == SecondsPerDay \div TicksPerDay
\* Timestamp.fromDate: whole seconds and nanoseconds of the instant
TimestampFromDate(t) == [seconds |-> t * SecondsPerTick, nanoseconds |-> 0]
\* Timestamp.toDate: back to an instant at Date resolution
TimestampToDate(ts) == (ts.seconds + ts.nanoseconds \div 1000000000) \div SecondsPerTick
\* Date.toISOString: calendar date and time of day (UTC)
toISOString(t) == <<t \div TicksPerDay, t % TicksPerDay>>
\* new Date(isoString)
ParseISO(iso) == Day(iso[1]) + iso[2]

VARIABLES now, backend, acUnits, acUnitIdCounter, fbUnits,
          card, prevCard, page, response, lastCreate,
          users, userIdCounter,
          notificationPreferences, notificationPreferencesIdCounter,
          sessionStore, pending, fbPreferences,
          location, firebaseUser, user, isLoading, loginAttempt,
          fbReminders, outbox, authPending

\* the other MemStorage maps, the session store, the handlers suspended in parseBody
serverVars == <<users, userIdCounter,
                notificationPreferences, notificationPreferencesIdCounter,
                sessionStore, pending>>
\* the browser: wouter location, Firebase auth state, AuthProvider state, LoginForm
browserVars == <<location, firebaseUser, user, isLoading, loginAttempt>>
\* users/{userId}/reminders, the e-mails handed to EmailJS, and the register and
\* login handlers suspended in bcrypt
sideVars == <<fbReminders, outbox, authPending>>

vars == <<now, backend, acUnits, acUnitIdCounter, fbUnits,
          card, prevCard, page, response, lastCreate,
          users, userIdCounter,
          notificationPreferences, notificationPreferencesIdCounter,
          sessionStore, pending, fbPreferences,
          location, firebaseUser, user, isLoading, loginAttempt,
          fbReminders, outbox, authPending>>

\* ===================================================== MemStorage (server)
\* An InsertAcUnit: [userId, location, lastServiceDate, nextServiceDate]
\* MemStorage.getAcUnit(id) !== undefined
hasAcUnit(units, id) == id \in DOMAIN units

\* Map iteration order is insertion order; ids are handed out increasing
RECURSIVE SeqOfIds(_)
SeqOfIds(S) ==
    IF S = {} THEN <<>>
    ELSE LET m == CHOOSE x \in S : \A y \in S : x <= y
         IN  <<m>> \o SeqOfIds(S \ {m})

getAcUnitsByUserId_NoFilter(units, userId) ==
    [i \in 1..Cardinality(DOMAIN units) |-> units[SeqOfIds(DOMAIN units)[i]]]
\* MemStorage.getAcUnitsByUserId
getAcUnitsByUserId(units, userId) ==
    LET all == [i \in 1..Cardinality(DOMAIN units) |-> units[SeqOfIds(DOMAIN units)[i]]]
        Owned(unit) == unit.userId = userId
    IN  SelectSeq(all, Owned)

\* MemStorage.createAcUnit: the record stored under the next id
createAcUnit(insertAcUnit, id, t) ==
    [id |-> id,
     userId |-> insertAcUnit.userId,
     location |-> insertAcUnit.location,
     lastServiceDate |-> insertAcUnit.lastServiceDate,
     nextServiceDate |-> insertAcUnit.nextServiceDate,
     createdAt |-> t]

\* { ...acUnit, ...data }
Merge(rec, data) ==
    [f \in DOMAIN rec |-> IF f \in DOMAIN data THEN data[f] ELSE rec[f]]

\* MemStorage.updateAcUnit: the store after the call
updateAcUnit_Dropped(units, id, data) == units
updateAcUnit(units, id, data) ==
    IF ~hasAcUnit(units, id) THEN units
    ELSE [units EXCEPT ![id] = Merge(units[id], data)]

\* MemStorage.deleteAcUnit: the store after the call
deleteAcUnit(units, id) == [i \in DOMAIN units \ {id} |-> units[i]]

\* is the value a Date (neither null nor undefined)
IsDate(x) == x >= 0

\* MemStorage.getDashboardStats: the three filters
SrvIsUpcoming_FromZero(unit, t) ==
    LET diffDays == CeilDays(unit.nextServiceDate - t)
    IN  diffDays >= 0 /\ diffDays <= UpcomingDays
SrvIsUpcoming(unit, t) ==
    LET nextService == unit.nextServiceDate
        diffTime == nextService - t
        diffDays == CeilDays(diffTime)
    IN  diffDays > 0 /\ diffDays <= UpcomingDays

SrvIsOverdue(unit, t) == unit.nextServiceDate < t

SrvIsCompleted(unit, t) ==
    /\ unit.lastServiceDate # NULL
    /\ IsDate(unit.lastServiceDate) /\ unit.lastServiceDate <= t
    /\ unit.nextServiceDate > t

getDashboardStats(units, userId, t) ==
    LET userAcUnits == getAcUnitsByUserId(units, userId)
        Up(u) == SrvIsUpcoming(u, t)
        Over(u) == SrvIsOverdue(u, t)
        Done(u) == SrvIsCompleted(u, t)
    IN  [op |-> "stats", backend |-> "server", userId |-> userId, now |-> t,
         totalUnits |-> Len(userAcUnits),
         upcomingServices |-> Len(SelectSeq(userAcUnits, Up)),
         overdueServices |-> Len(SelectSeq(userAcUnits, Over)),
         servicesCompleted |-> Len(SelectSeq(userAcUnits, Done))]

\* JSON.stringify of a unit in a response body: Dates become ISO strings
JsonNull == <<>>
JsonDate(d) == IF IsDate(d) THEN toISOString(d) ELSE JsonNull
JsonUnit(unit) ==
    [id |-> unit.id, userId |-> unit.userId, location |-> unit.location,
     lastServiceDate |-> JsonDate(unit.lastServiceDate),
     nextServiceDate |-> toISOString(unit.nextServiceDate),
     createdAt |-> toISOString(unit.createdAt)]
JsonUnits(s) == [i \in DOMAIN s |-> JsonUnit(s[i])]

\* ===================================================== Firestore (client)
\* users/{userId}/acUnits/{docId}: fbUnits maps <<userId, docId>> to the document
DocIds == 1..(IF MaxUnits > MaxStatUnits THEN MaxUnits ELSE MaxStatUnits)
NullTimestamp == [seconds |-> NULL, nanoseconds |-> 0]
IsTimestamp(ts) == ts.seconds >= 0

\* firebase.ts createAcUnit: the document written by setDoc
FbAcUnitDoc(userId, docId, acUnitData, t) ==
    [id |-> docId,
     userId |-> userId,
     location |-> acUnitData.location,
     lastServiceDate |-> IF IsDate(acUnitData.lastServiceDate)
                         THEN TimestampFromDate(acUnitData.lastServiceDate)
                         ELSE NullTimestamp,
     nextServiceDate |-> TimestampFromDate(acUnitData.nextServiceDate),
     createdAt |-> TimestampFromDate(t)]

\* firebase.ts updateAcUnit: the fields updateDoc writes
FbUpdateData(acUnitData) ==
    [f \in DOMAIN acUnitData |->
        IF f = "lastServiceDate"
        THEN (IF IsDate(acUnitData[f]) THEN TimestampFromDate(acUnitData[f])
              ELSE NullTimestamp)
        ELSE IF f = "nextServiceDate" THEN TimestampFromDate(acUnitData[f])
        ELSE acUnitData[f]]

\* firebase.ts getAcUnits: one document as the client sees it
FbClientUnit(docId, data) ==
    [id |-> docId,
     userId |-> data.userId,
     location |-> data.location,
     lastServiceDate |-> IF IsTimestamp(data.lastServiceDate)
                         THEN toISOString(TimestampToDate(data.lastServiceDate))
                         ELSE JsonNull,
     nextServiceDate |-> toISOString(TimestampToDate(data.nextServiceDate)),
     createdAt |-> toISOString(TimestampToDate(data.createdAt))]

\* firebase.ts getAcUnits: the collection of one user, in document-id order
FbGetAcUnits(docs, userId) ==
    LET ids == SeqOfIds({d \in DocIds : <<userId, d>> \in DOMAIN docs})
    IN  [i \in DOMAIN ids |-> FbClientUnit(ids[i], docs[<<userId, ids[i]>>])]

\* firebase.ts getDashboardStats: the per-unit tests of the forEach
FbDaysTillService(unit, today) == FloorDays(ParseISO(unit.nextServiceDate) - today)
FbIsOverdue_OrToday(unit, today) == FbDaysTillService(unit, today) <= 0
FbIsOverdue(unit, today) == FbDaysTillService(unit, today) < 0
FbIsUpcoming_NoLimit(unit, today) == ~(FbDaysTillService(unit, today) < 0)
FbIsUpcoming(unit, today) ==
    /\ ~(FbDaysTillService(unit, today) < 0)
    /\ FbDaysTillService(unit, today) <= UpcomingDays
FbIsCompleted(unit, today) == unit.lastServiceDate # JsonNull

FbGetDashboardStats(docs, userId, today) ==
    LET units == FbGetAcUnits(docs, userId)
        Up(u) == FbIsUpcoming(u, today)
        Over(u) == FbIsOverdue(u, today)
        Done(u) == FbIsCompleted(u, today)
    IN  [op |-> "stats", backend |-> "firebase", userId |-> userId, now |-> today,
         totalUnits |-> Len(units),
         upcomingServices |-> Len(SelectSeq(units, Up)),
         overdueServices |-> Len(SelectSeq(units, Over)),
         servicesCompleted |-> Len(SelectSeq(units, Done))]

\* ============================================================ AcUnitCard
CardIsOverdue_OrToday(daysRemaining) == daysRemaining <= 0
CardIsOverdue(daysRemaining) == daysRemaining < 0
CardIsUpcoming_Strict(daysRemaining) == daysRemaining >= 0 /\ daysRemaining < UrgentDays
CardIsUpcoming(daysRemaining) == daysRemaining >= 0 /\ daysRemaining <= UrgentDays

AcUnitCard(acUnit, t) ==
    LET nextService == ParseISO(acUnit.nextServiceDate)
        daysRemaining == differenceInDays(nextService, t)
        isOverdue == CardIsOverdue(daysRemaining)
        isUpcoming == CardIsUpcoming(daysRemaining)
    IN  [op |-> "card", acUnit |-> acUnit, now |-> t,
         daysRemaining |-> daysRemaining,
         status |-> IF isOverdue THEN "Overdue"
                    ELSE IF isUpcoming THEN "Upcoming" ELSE "Normal",
         label |-> IF isOverdue THEN <<"Overdue by", Abs(daysRemaining)>>
                   ELSE <<"days remaining", daysRemaining>>]

\* ======================================================== Reminders page
\* [...acUnits].sort by nextServiceDate, ascending (Array.prototype.sort is stable)
InsertByDate(sorted, unit) ==
    LET k == Cardinality({i \in DOMAIN sorted :
                 ParseISO(sorted[i].nextServiceDate) <= ParseISO(unit.nextServiceDate)})
    IN  SubSeq(sorted, 1, k) \o <<unit>> \o SubSeq(sorted, k + 1, Len(sorted))

RECURSIVE SortByNextDate(_)
SortByNextDate(s) ==
    IF s = <<>> THEN <<>>
    ELSE InsertByDate(SortByNextDate(SubSeq(s, 1, Len(s) - 1)), s[Len(s)])

PageIsOverdueUnit_OrEqual(unit, today) == ParseISO(unit.nextServiceDate) <= today
PageIsOverdueUnit(unit, today) == isBefore(ParseISO(unit.nextServiceDate), today)
PageIsUpcomingUnit(unit, today) ==
    LET nextDate == ParseISO(unit.nextServiceDate)
        daysRemaining == differenceInDays(nextDate, today)
    IN  ~isBefore(nextDate, today) /\ daysRemaining <= UpcomingDays

\* one row of the "needs attention" table
PageRow(unit, today) ==
    LET nextDate == ParseISO(unit.nextServiceDate)
        daysRemaining == differenceInDays(nextDate, today)
        isOverdue == daysRemaining < 0
    IN  [unit |-> unit,
         daysRemaining |-> daysRemaining,
         status |-> IF isOverdue THEN "Overdue"
                    ELSE IF daysRemaining <= UrgentDays THEN "Urgent" ELSE "Upcoming",
         timeLeft |-> IF isOverdue THEN <<"days overdue", Abs(daysRemaining)>>
                      ELSE <<"days remaining", daysRemaining>>]

Reminders(userId, acUnitList, today) ==
    LET sortedUnits == SortByNextDate(acUnitList)
        Over(u) == PageIsOverdueUnit(u, today)
        Up(u) == PageIsUpcomingUnit(u, today)
        overdueUnits == SelectSeq(sortedUnits, Over)
        upcomingUnits == SelectSeq(sortedUnits, Up)
        attentionUnits == overdueUnits \o upcomingUnits
    IN  [op |-> "page", userId |-> userId, today |-> today,
         overdueUnits |-> overdueUnits,
         upcomingUnits |-> upcomingUnits,
         rows |-> [i \in DOMAIN attentionUnits |-> PageRow(attentionUnits[i], today)]]

\* ================================================================ inputs
\* requests of the storage state machine
ReqNextDates == {NowStart - Day(1), NowStart + Day(5)}
ReqLastDates == {NULL, NowStart - Day(2)}
InsertAcUnits ==
    [userId : Users, location : Locations,
     lastServiceDate : ReqLastDates, nextServiceDate : ReqNextDates]
AcUnitDatas ==
    [location : Locations, lastServiceDate : ReqLastDates, nextServiceDate : ReqNextDates]
PartialAcUnitDatas ==
    [location : Locations] \cup [lastServiceDate : ReqLastDates]
        \cup [nextServiceDate : ReqNextDates]
PartialInsertAcUnits == PartialAcUnitDatas \cup [userId : Users]

\* the units of one user as the client holds them
ClientUnits(userId) ==
    IF backend = "server" THEN JsonUnits(getAcUnitsByUserId(acUnits, userId))
    ELSE FbGetAcUnits(fbUnits, userId)

\* =============================================================== actions
MemCreateAcUnit ==
    /\ backend = "server"
    /\ acUnitIdCounter <= MaxUnits
    /\ \E insertAcUnit \in InsertAcUnits :
         LET id == acUnitIdCounter
             acUnit == createAcUnit(insertAcUnit, id, now)
         IN  /\ lastCreate' = [op |-> "create", userId |-> insertAcUnit.userId,
                               location |-> insertAcUnit.location,
                               nextServiceDate |-> insertAcUnit.nextServiceDate,
                               wasEmpty |-> getAcUnitsByUserId(acUnits, insertAcUnit.userId) = <<>>]
             /\ acUnits' = [i \in DOMAIN acUnits \cup {id} |->
                              IF i = id THEN acUnit ELSE acUnits[i]]
             /\ acUnitIdCounter' = acUnitIdCounter + 1
             /\ response' = [op |-> "created", id |-> id]
    /\ UNCHANGED <<now, backend, fbUnits, card, prevCard, page>>
    /\ UNCHANGED <<serverVars, browserVars, fbPreferences, sideVars>>

MemGetAcUnitsByUserId ==
    /\ backend = "server"
    /\ \E userId \in Users :
         response' = [op |-> "units", userId |-> userId,
                      units |-> getAcUnitsByUserId(acUnits, userId)]
    /\ UNCHANGED <<now, backend, acUnits, acUnitIdCounter, fbUnits, card, prevCard, page, lastCreate>>
    /\ UNCHANGED <<serverVars, browserVars, fbPreferences, sideVars>>

MemUpdateAcUnit ==
    /\ backend = "server"
    /\ \E id \in 1..MaxUnits, data \in PartialInsertAcUnits :
         /\ acUnits' = updateAcUnit(acUnits, id, data)
         /\ response' = [op |-> "updated", id |-> id, found |-> hasAcUnit(acUnits, id)]
    /\ lastCreate' = NONE
    /\ UNCHANGED <<now, backend, acUnitIdCounter, fbUnits, card, prevCard, page>>
    /\ UNCHANGED <<serverVars, browserVars, fbPreferences, sideVars>>

MemDeleteAcUnit ==
    /\ backend = "server"
    /\ \E id \in 1..MaxUnits :
         /\ acUnits' = deleteAcUnit(acUnits, id)
         /\ response' = [op |-> "deleted", id |-> id, found |-> hasAcUnit(acUnits, id)]
    /\ lastCreate' = NONE
    /\ UNCHANGED <<now, backend, acUnitIdCounter, fbUnits, card, prevCard, page>>
    /\ UNCHANGED <<serverVars, browserVars, fbPreferences, sideVars>>

MemGetDashboardStats ==
    /\ backend = "server"
    /\ \E userId \in Users : response' = getDashboardStats(acUnits, userId, now)
    /\ UNCHANGED <<now, backend, acUnits, acUnitIdCounter, fbUnits, card, prevCard, page, lastCreate>>
    /\ UNCHANGED <<serverVars, browserVars, fbPreferences, sideVars>>

FirebaseCreateAcUnit ==
    /\ backend = "firebase"
    /\ Cardinality(DOMAIN fbUnits) < MaxUnits
    /\ \E userId \in Users, acUnitData \in AcUnitDatas, docId \in DocIds :
         /\ <<userId, docId>> \notin DOMAIN fbUnits
         /\ lastCreate' = [op |-> "create", userId |-> userId,
                           location |-> acUnitData.location,
                           nextServiceDate |-> acUnitData.nextServiceDate,
                           wasEmpty |-> FbGetAcUnits(fbUnits, userId) = <<>>]
         /\ fbUnits' = [k \in DOMAIN fbUnits \cup {<<userId, docId>>} |->
                          IF k = <<userId, docId>>
                          THEN FbAcUnitDoc(userId, docId, acUnitData, now)
                          ELSE fbUnits[k]]
         /\ response' = [op |-> "created", id |-> docId]
    /\ UNCHANGED <<now, backend, acUnits, acUnitIdCounter, card, prevCard, page>>
    /\ UNCHANGED <<serverVars, browserVars, fbPreferences, sideVars>>

\* updateDoc rejects when the document does not exist
FirebaseUpdateAcUnit ==
    /\ backend = "firebase"
    /\ \E userId \in Users, acUnitId \in DocIds, acUnitData \in PartialAcUnitDatas :
         IF <<userId, acUnitId>> \in DOMAIN fbUnits
         THEN /\ fbUnits' = [fbUnits EXCEPT ![<<userId, acUnitId>>] =
                                Merge(@, FbUpdateData(acUnitData))]
              /\ response' = [op |-> "updated", id |-> acUnitId, found |-> TRUE]
         ELSE /\ fbUnits' = fbUnits
              /\ response' = [op |-> "error", id |-> acUnitId]
    /\ lastCreate' = NONE
    /\ UNCHANGED <<now, backend, acUnits, acUnitIdCounter, card, prevCard, page>>
    /\ UNCHANGED <<serverVars, browserVars, fbPreferences, sideVars>>

FirebaseGetAcUnits ==
    /\ backend = "firebase"
    /\ \E userId \in Users :
         response' = [op |-> "units", userId |-> userId,
                      units |-> FbGetAcUnits(fbUnits, userId)]
    /\ UNCHANGED <<now, backend, acUnits, acUnitIdCounter, fbUnits, card, prevCard, page, lastCreate>>
    /\ UNCHANGED <<serverVars, browserVars, fbPreferences, sideVars>>

FirebaseGetDashboardStats ==
    /\ backend = "firebase"
    /\ \E userId \in Users : response' = FbGetDashboardStats(fbUnits, userId, now)
    /\ UNCHANGED <<now, backend, acUnits, acUnitIdCounter, fbUnits, card, prevCard, page, lastCreate>>
    /\ UNCHANGED <<serverVars, browserVars, fbPreferences, sideVars>>

\* a dashboard / units page renders the card of one fetched unit; cards are
\* keyed by unit id, prevCard is the previous render of the same card
RenderCard ==
    /\ \E userId \in Users :
         \E i \in DOMAIN ClientUnits(userId) :
            LET acUnit == ClientUnits(userId)[i]
            IN  /\ card' = AcUnitCard(acUnit, now)
                /\ prevCard' = IF card.op = "card" /\ card.acUnit.id = acUnit.id
                                   /\ card.acUnit.userId = acUnit.userId
                                THEN card ELSE NONE
    /\ UNCHANGED <<now, backend, acUnits, acUnitIdCounter, fbUnits, page, response, lastCreate>>
    /\ UNCHANGED <<serverVars, browserVars, fbPreferences, sideVars>>

\* the Reminders page renders the lists of the signed-in user
RenderReminders ==
    /\ \E userId \in Users : page' = Reminders(userId, ClientUnits(userId), now)
    /\ UNCHANGED <<now, backend, acUnits, acUnitIdCounter, fbUnits, card, prevCard, response, lastCreate>>
    /\ UNCHANGED <<serverVars, browserVars, fbPreferences, sideVars>>

\* the clock advances
Tick ==
    /\ now < MaxNow
    /\ now' = now + 1
    /\ UNCHANGED <<backend, acUnits, acUnitIdCounter, fbUnits, card, prevCard, page, response, lastCreate>>
    /\ UNCHANGED <<serverVars, browserVars, fbPreferences, sideVars>>

\* ======================================= HTTP server (server/node-server.ts)
\* ------------------------------------------------------- request bodies
\* A request body as sent: text that is no JSON, no text at all, or a JSON
\* object given by the value and the JSON type of each of its members.
InvalidJson == [syntax |-> "invalid"]
EmptyBody == [syntax |-> "empty"]
JsonObject(value, type) == [syntax |-> "json", value |-> value, type |-> type]
THROWN == [thrown |-> "SyntaxError"]
\* parseBody: JSON.parse of the text, {} for no text, rejection for bad JSON
parseBody_Lenient(raw) ==
    IF raw.syntax = "json" THEN [value |-> raw.value, type |-> raw.type]
    ELSE [value |-> EmptyMap, type |-> EmptyMap]
parseBody(raw) ==
    IF raw.syntax = "invalid" THEN THROWN
    ELSE IF raw.syntax = "empty" THEN [value |-> EmptyMap, type |-> EmptyMap]
    ELSE [value |-> raw.value, type |-> raw.type]
Rejected(body) == "thrown" \in DOMAIN body

\* A Zod object schema: the type each key must have, the keys that may be
\* absent, the keys that may be null.  A "date" key wants a Date instance,
\* which no JSON value is.
insertUserSchema ==
    [type |-> [username |-> "string", password |-> "string", email |-> "string"],
     optional |-> {}, nullable |-> {}]
loginSchema ==
    [type |-> [username |-> "string", password |-> "string"],
     optional |-> {}, nullable |-> {}]
insertAcUnitSchema_NullableNext ==
    [type |-> [userId |-> "number", location |-> "string",
               lastServiceDate |-> "date", nextServiceDate |-> "date"],
     optional |-> {"lastServiceDate"}, nullable |-> {"lastServiceDate", "nextServiceDate"}]
insertAcUnitSchema ==
    [type |-> [userId |-> "number", location |-> "string",
               lastServiceDate |-> "date", nextServiceDate |-> "date"],
     optional |-> {"lastServiceDate"}, nullable |-> {"lastServiceDate"}]
insertNotificationPreferencesSchema ==
    [type |-> [userId |-> "number", emailEnabled |-> "boolean",
               smsEnabled |-> "boolean", daysBeforeService |-> "number"],
     optional |-> {"emailEnabled", "smsEnabled", "daysBeforeService"},
     nullable |-> {}]
\* schema.partial(): every key may be absent
partial(schema) == [schema EXCEPT !.optional = DOMAIN schema.type]
\* schema.parse(body) throws a ZodError
ZodError(schema, body) ==
    \/ \E k \in DOMAIN schema.type \ schema.optional : k \notin DOMAIN body.value
    \/ \E k \in DOMAIN schema.type \cap DOMAIN body.value :
         /\ body.type[k] # schema.type[k]
         /\ ~(body.type[k] = "null" /\ k \in schema.nullable)
\* schema.parse(body) returns the known keys; JSON null becomes null
parse(schema, body) ==
    [k \in DOMAIN schema.type \cap DOMAIN body.value |->
        IF body.type[k] = "null" THEN NULL ELSE body.value[k]]

\* ---------------------------------------------------------------- bcrypt
\* A stored password string: a bcrypt digest of some text, or the text itself
bcryptHash(password) == [bcrypt |-> TRUE, text |-> password]
PlainString(password) == [bcrypt |-> FALSE, text |-> password]
bcryptCompare(password, stored) == stored.bcrypt /\ stored.text = password
\* a JS string in a condition: the empty string is falsy
Truthy(string) == string # ""

\* ------------------------------------------------------ MemStorage users
Put(map, key, value) ==
    [k \in DOMAIN map \cup {key} |-> IF k = key THEN value ELSE map[k]]
Remove(map, key) == [k \in DOMAIN map \ {key} |-> map[k]]
Omit_Nothing(rec, field) == rec
Omit(rec, field) == [k \in DOMAIN rec \ {field} |-> rec[k]]
getUser(id) == IF id \in DOMAIN users THEN users[id] ELSE NONE
getUserByUsername(username) ==
    LET found == {id \in DOMAIN users : users[id].username = username}
    IN  IF found = {} THEN NONE
        ELSE users[CHOOSE id \in found : \A other \in found : id <= other]
getUserByEmail(email) ==
    LET found == {id \in DOMAIN users : users[id].email = email}
    IN  IF found = {} THEN NONE
        ELSE users[CHOOSE id \in found : \A other \in found : id <= other]
createUser(insertUser, id, t) ==
    [id |-> id, username |-> insertUser.username, email |-> insertUser.email,
     password |-> insertUser.password, createdAt |-> t]
updateUser(id, data) ==
    IF id \in DOMAIN users THEN Put(users, id, Merge(users[id], data)) ELSE users

\* ------------------------------------ MemStorage notification preferences
getNotificationPreferences(prefs, userId) ==
    LET found == {id \in DOMAIN prefs : prefs[id].userId = userId}
    IN  IF found = {} THEN NONE
        ELSE prefs[CHOOSE id \in found : \A other \in found : id <= other]
createNotificationPreferences(insertPreferences, id) ==
    [id |-> id, userId |-> insertPreferences.userId,
     emailEnabled |-> insertPreferences.emailEnabled,
     smsEnabled |-> insertPreferences.smsEnabled,
     daysBeforeService |-> insertPreferences.daysBeforeService]
updateNotificationPreferences_Ignored(prefs, userId, data) == prefs
updateNotificationPreferences(prefs, userId, data) ==
    LET preferences == getNotificationPreferences(prefs, userId)
    IN  IF preferences = NONE THEN prefs
        ELSE Put(prefs, preferences.id, Merge(preferences, data))
\* the defaults written where the request gives no value (a ?? b)
DefaultPreferences_SmsOn ==
    [emailEnabled |-> TRUE, smsEnabled |-> TRUE,
     daysBeforeService |-> DefaultDaysBeforeService]
DefaultPreferences ==
    [emailEnabled |-> TRUE, smsEnabled |-> FALSE,
     daysBeforeService |-> DefaultDaysBeforeService]
OrDefault(data, field) ==
    IF field \in DOMAIN data THEN data[field] ELSE DefaultPreferences[field]

\* --------------------------------------------------- MemorySessionStore
SessionIds == 1..MaxSessions
\* the sessionId cookie a browser sends (none at first)
Cookies == SessionIds \cup {UNDEFINED}
\* sessionStore.get: an expired session is deleted when looked up
sessionStoreGet_KeepsExpired(store, id, t) == store
sessionStoreGet(store, id, t) ==
    IF id \in DOMAIN store /\ store[id].expires < t THEN Remove(store, id) ELSE store
\* handleSession: the session of the cookie, or a new one under a random id
handleSession(store, cookie, newId, t) ==
    LET swept == sessionStoreGet(store, cookie, t)
    IN  IF cookie \in DOMAIN swept
        THEN [sessions |-> swept, sessionId |-> cookie]
        ELSE [sessions |-> Put(swept, newId,
                               [id |-> newId, userId |-> UNDEFINED,
                                createdAt |-> t, expires |-> t + SessionMaxAge]),
              sessionId |-> newId]
\* crypto.randomBytes gives an id no stored session has
RandomId(store, cookie, newId, t) ==
    LET swept == sessionStoreGet(store, cookie, t)
    IN  IF cookie \in DOMAIN swept THEN newId = cookie ELSE newId \notin DOMAIN swept
requireAuth_Always(session) == TRUE
\* requireAuth: false (and 401 sent) when the session has no userId
requireAuth(session) == session.userId # UNDEFINED

\* parseInt of the last path segment: its leading digits, NaN without any
NaN == 0 - 3
parseInt(segment) == segment.digits
isNaN(id) == id = NaN

\* ------------------------------------------------------------- requests
Usernames == {"ann", "bob"}
Emails == {"ann@x", "bob@x"}
Passwords == {"", "secret"}
StringMembers(value) == [k \in DOMAIN value |-> "string"]
Credentials(username, email, password) ==
    [username |-> username, email |-> email, password |-> password]
RegisterBodies ==
    LET ann == Credentials("ann", "ann@x", "secret")
        bob == Credentials("bob", "bob@x", "")
        bobAtAnn == Credentials("bob", "ann@x", "secret")
    IN  {JsonObject(v, StringMembers(v)) : v \in {ann, bob, bobAtAnn}}
            \cup {JsonObject([username |-> "ann"], [username |-> "string"]),
                  InvalidJson}
LoginBodies ==
    {JsonObject(v, StringMembers(v)) :
        v \in {[username |-> "ann", password |-> "secret"],
               [username |-> "bob", password |-> ""],
               [username |-> "ann", password |-> ""]}}
        \cup {JsonObject([username |-> "ann"], [username |-> "string"]),
              InvalidJson}
PatchUserBodies ==
    {JsonObject(v, StringMembers(v)) :
        v \in {[password |-> ""], [password |-> "changed"]}}
        \cup {JsonObject([password |-> "0"], [password |-> "number"]),
              EmptyBody, InvalidJson}
\* day counts inside and outside the range of the Reminders form
DaysBeforeServiceValues ==
    {MinDaysBeforeService - 1, MaxDaysBeforeService, MaxDaysBeforeService + 1}
PreferencesBodies ==
    {JsonObject([daysBeforeService |-> d], [daysBeforeService |-> "number"]) :
        d \in DaysBeforeServiceValues}
        \cup {JsonObject([userId |-> u], [userId |-> "number"]) : u \in Users}
        \cup {JsonObject([daysBeforeService |-> 0], [daysBeforeService |-> "string"]),
              EmptyBody, InvalidJson}
\* JSON has no Date: a date member is an ISO string or null
PostAcUnitBodies ==
    {JsonObject([location |-> "Garage", nextServiceDate |-> toISOString(d)],
                [location |-> "string", nextServiceDate |-> "string"]) :
        d \in ReqNextDates}
        \cup {JsonObject([location |-> "Garage"], [location |-> "string"]),
              InvalidJson}
PatchAcUnitBodies ==
    {JsonObject([location |-> l], [location |-> "string"]) : l \in Locations}
        \cup {JsonObject([userId |-> u], [userId |-> "number"]) : u \in Users}
        \cup {JsonObject([lastServiceDate |-> JsonNull], [lastServiceDate |-> "null"]),
              JsonObject([nextServiceDate |-> JsonNull], [nextServiceDate |-> "null"]),
              JsonObject([nextServiceDate |-> toISOString(NowStart)],
                         [nextServiceDate |-> "string"]),
              InvalidJson}
Segment(digits, rest) == [digits |-> digits, rest |-> rest]
\* the last path segment of /api/ac-units/:id
IdSegments ==
    {Segment(i, "") : i \in 1..(MaxUnits + 1)}
        \cup {Segment(NaN, "abc"), Segment(NaN, ""), Segment(1, "abc")}

\* ------------------------------------------------------------ responses
storeVars == <<users, userIdCounter,
               notificationPreferences, notificationPreferencesIdCounter,
               acUnits, acUnitIdCounter>>
Message(text) == [message |-> text]
NoBody == [message |-> ""]
\* what the handler sent, with what it had read when it sent it
Http(route, session, status, body, raw, id, acUnit) ==
    [op |-> "http", route |-> route, status |-> status, body |-> body,
     sessionUserId |-> session.userId, request |-> raw, id |-> id, acUnit |-> acUnit]
\* res.end without a write to the storage
Reply(route, hs, status, body, raw, id, acUnit) ==
    /\ sessionStore' = hs.sessions
    /\ response' = Http(route, hs.sessions[hs.sessionId], status, body, raw, id, acUnit)
    /\ UNCHANGED <<storeVars, pending>>
\* the variables no request handler touches
ClientSide ==
    UNCHANGED <<now, backend, fbUnits, card, prevCard, page, lastCreate,
                browserVars, fbPreferences, sideVars>>

\* ------------------------------------------------------- auth handlers
\* POST /api/auth/register
ApiRegister ==
    /\ backend = "server"
    /\ \E cookie \in Cookies, newId \in SessionIds, raw \in RegisterBodies :
        /\ RandomId(sessionStore, cookie, newId, now)
        /\ LET hs == handleSession(sessionStore, cookie, newId, now)
               route == "POST /api/auth/register"
               session == hs.sessions[hs.sessionId]
               body == parseBody(raw)
               userData == parse(insertUserSchema, body)
               hashedPassword == bcryptHash(userData.password)
               newUser == createUser([userData EXCEPT !.password = hashedPassword],
                                  userIdCounter, now)
               preferences ==
                   createNotificationPreferences(
                       [userId |-> newUser.id, emailEnabled |-> TRUE, smsEnabled |-> FALSE,
                        daysBeforeService |-> DefaultDaysBeforeService],
                       notificationPreferencesIdCounter)
           IN  IF Rejected(body)
               THEN Reply(route, hs, 500, Message("Server error"), raw, UNDEFINED, NONE)
               ELSE IF ZodError(insertUserSchema, body)
               THEN Reply(route, hs, 400, Message("Validation error"), raw, UNDEFINED, NONE)
               ELSE IF getUserByUsername(userData.username) # NONE
               THEN Reply(route, hs, 400, Message("Username already exists"), raw, UNDEFINED, NONE)
               ELSE IF getUserByEmail(userData.email) # NONE
               THEN Reply(route, hs, 400, Message("Email already exists"), raw, UNDEFINED, NONE)
               ELSE /\ userIdCounter <= MaxUsers
                    /\ notificationPreferencesIdCounter <= MaxPreferences
                    /\ users' = Put(users, newUser.id, newUser)
                    /\ userIdCounter' = userIdCounter + 1
                    /\ notificationPreferences' =
                           Put(notificationPreferences, preferences.id, preferences)
                    /\ notificationPreferencesIdCounter' = notificationPreferencesIdCounter + 1
                    /\ sessionStore' = Put(hs.sessions, hs.sessionId,
                                           [session EXCEPT !.userId = newUser.id])
                    /\ response' = Http(route, session, 201, Omit(newUser, "password"),
                                        raw, UNDEFINED, NONE)
                    /\ UNCHANGED <<acUnits, acUnitIdCounter, pending>>
    /\ ClientSide

\* POST /api/auth/login
ApiLogin ==
    /\ backend = "server"
    /\ \E cookie \in Cookies, newId \in SessionIds, raw \in LoginBodies :
        /\ RandomId(sessionStore, cookie, newId, now)
        /\ LET hs == handleSession(sessionStore, cookie, newId, now)
               route == "POST /api/auth/login"
               session == hs.sessions[hs.sessionId]
               body == parseBody(raw)
               credentials == parse(loginSchema, body)
               found == getUserByUsername(credentials.username)
           IN  IF Rejected(body)
               THEN Reply(route, hs, 500, Message("Server error"), raw, UNDEFINED, NONE)
               ELSE IF ZodError(loginSchema, body)
               THEN Reply(route, hs, 400, Message("Validation error"), raw, UNDEFINED, NONE)
               ELSE IF found = NONE
               THEN Reply(route, hs, 400, Message("Invalid credentials"), raw, UNDEFINED, NONE)
               ELSE IF ~bcryptCompare(credentials.password, found.password)
               THEN Reply(route, hs, 400, Message("Invalid credentials"), raw, UNDEFINED, NONE)
               ELSE /\ sessionStore' = Put(hs.sessions, hs.sessionId,
                                           [session EXCEPT !.userId = found.id])
                    /\ response' = Http(route, session, 200, Omit(found, "password"),
                                        raw, UNDEFINED, NONE)
                    /\ UNCHANGED <<storeVars, pending>>
    /\ ClientSide

\* POST /api/auth/logout
ApiLogout ==
    /\ backend = "server"
    /\ \E cookie \in Cookies, newId \in SessionIds :
        /\ RandomId(sessionStore, cookie, newId, now)
        /\ LET hs == handleSession(sessionStore, cookie, newId, now)
           IN  /\ sessionStore' = Remove(hs.sessions, hs.sessionId)
               /\ response' = Http("POST /api/auth/logout", hs.sessions[hs.sessionId], 200,
                                   Message("Logged out successfully"), NONE, UNDEFINED, NONE)
               /\ UNCHANGED <<storeVars, pending>>
    /\ ClientSide

\* GET /api/auth/me
ApiGetMe ==
    /\ backend = "server"
    /\ \E cookie \in Cookies, newId \in SessionIds :
        /\ RandomId(sessionStore, cookie, newId, now)
        /\ LET hs == handleSession(sessionStore, cookie, newId, now)
               route == "GET /api/auth/me"
               session == hs.sessions[hs.sessionId]
               found == getUser(session.userId)
           IN  IF ~requireAuth(session)
               THEN Reply(route, hs, 401, Message("Unauthorized"), NONE, UNDEFINED, NONE)
               ELSE IF found = NONE
               THEN Reply(route, hs, 404, Message("User not found"), NONE, UNDEFINED, NONE)
               ELSE Reply(route, hs, 200, Omit(found, "password"), NONE, UNDEFINED, NONE)
    /\ ClientSide

\* ---------------------------- auth handlers, suspended while bcryptjs works
\* bcryptjs yields to the event loop (setImmediate) inside genSalt, hash and
\* compare: register and login are served in two steps, other requests in
\* between. A suspended handler keeps req.session, the object handleSession
\* attached, whether or not the store still holds it.
ServerSide ==
    UNCHANGED <<now, backend, fbUnits, card, prevCard, page, lastCreate,
                browserVars, fbPreferences, fbReminders, outbox>>
Suspended(route) == {handler \in authPending : handler.route = route}

\* POST /api/auth/register up to `await bcrypt.genSalt(10)`
ApiRegisterBegin ==
    /\ backend = "server"
    /\ \E cookie \in Cookies, newId \in SessionIds, raw \in RegisterBodies :
        /\ RandomId(sessionStore, cookie, newId, now)
        /\ LET hs == handleSession(sessionStore, cookie, newId, now)
               route == "POST /api/auth/register"
               body == parseBody(raw)
               userData == parse(insertUserSchema, body)
           IN  IF Rejected(body)
               THEN /\ Reply(route, hs, 500, Message("Server error"), raw, UNDEFINED, NONE)
                    /\ UNCHANGED authPending
               ELSE IF ZodError(insertUserSchema, body)
               THEN /\ Reply(route, hs, 400, Message("Validation error"), raw, UNDEFINED, NONE)
                    /\ UNCHANGED authPending
               ELSE IF getUserByUsername(userData.username) # NONE
               THEN /\ Reply(route, hs, 400, Message("Username already exists"),
                             raw, UNDEFINED, NONE)
                    /\ UNCHANGED authPending
               ELSE IF getUserByEmail(userData.email) # NONE
               THEN /\ Reply(route, hs, 400, Message("Email already exists"),
                             raw, UNDEFINED, NONE)
                    /\ UNCHANGED authPending
               ELSE /\ Cardinality(authPending) < MaxAuthPending
                    /\ authPending' = authPending \cup
                           {[route |-> route, sessionId |-> hs.sessionId,
                             session |-> hs.sessions[hs.sessionId],
                             userData |-> userData, raw |-> raw]}
                    /\ sessionStore' = hs.sessions
                    /\ response' = [op |-> "hashing", route |-> route]
                    /\ UNCHANGED <<storeVars, pending>>
    /\ ServerSide

\* POST /api/auth/register from the hashed password on
ApiRegisterEnd ==
    /\ backend = "server"
    /\ \E handler \in Suspended("POST /api/auth/register") :
        LET hashedPassword == bcryptHash(handler.userData.password)
            newUser == createUser([handler.userData EXCEPT !.password = hashedPassword],
                               userIdCounter, now)
            preferences ==
                createNotificationPreferences(
                    [userId |-> newUser.id, emailEnabled |-> TRUE, smsEnabled |-> FALSE,
                     daysBeforeService |-> DefaultDaysBeforeService],
                    notificationPreferencesIdCounter)
        IN  /\ userIdCounter <= MaxRegistered
            /\ notificationPreferencesIdCounter <= MaxPreferences
            /\ authPending' = authPending \ {handler}
            /\ users' = Put(users, newUser.id, newUser)
            /\ userIdCounter' = userIdCounter + 1
            /\ notificationPreferences' =
                   Put(notificationPreferences, preferences.id, preferences)
            /\ notificationPreferencesIdCounter' = notificationPreferencesIdCounter + 1
            /\ sessionStore' = Put(sessionStore, handler.sessionId,
                                   [handler.session EXCEPT !.userId = newUser.id])
            /\ response' = Http(handler.route, handler.session, 201,
                                Omit(newUser, "password"), handler.raw, UNDEFINED, NONE)
            /\ UNCHANGED <<acUnits, acUnitIdCounter, pending>>
    /\ ServerSide

\* POST /api/auth/login up to `await bcrypt.compare(password, user.password)`
ApiLoginBegin ==
    /\ backend = "server"
    /\ \E cookie \in Cookies, newId \in SessionIds, raw \in LoginBodies :
        /\ RandomId(sessionStore, cookie, newId, now)
        /\ LET hs == handleSession(sessionStore, cookie, newId, now)
               route == "POST /api/auth/login"
               body == parseBody(raw)
               credentials == parse(loginSchema, body)
               found == getUserByUsername(credentials.username)
           IN  IF Rejected(body)
               THEN /\ Reply(route, hs, 500, Message("Server error"), raw, UNDEFINED, NONE)
                    /\ UNCHANGED authPending
               ELSE IF ZodError(loginSchema, body)
               THEN /\ Reply(route, hs, 400, Message("Validation error"), raw, UNDEFINED, NONE)
                    /\ UNCHANGED authPending
               ELSE IF found = NONE
               THEN /\ Reply(route, hs, 400, Message("Invalid credentials"),
                             raw, UNDEFINED, NONE)
                    /\ UNCHANGED authPending
               ELSE /\ Cardinality(authPending) < MaxAuthPending
                    /\ authPending' = authPending \cup
                           {[route |-> route, sessionId |-> hs.sessionId,
                             session |-> hs.sessions[hs.sessionId],
                             user |-> found, password |-> credentials.password,
                             raw |-> raw]}
                    /\ sessionStore' = hs.sessions
                    /\ response' = [op |-> "comparing", route |-> route]
                    /\ UNCHANGED <<storeVars, pending>>
    /\ ServerSide

\* POST /api/auth/login from the result of bcrypt.compare on
ApiLoginEnd ==
    /\ backend = "server"
    /\ \E handler \in Suspended("POST /api/auth/login") :
        /\ authPending' = authPending \ {handler}
        /\ IF ~bcryptCompare(handler.password, handler.user.password)
           THEN /\ response' = Http(handler.route, handler.session, 400,
                                    Message("Invalid credentials"), handler.raw,
                                    UNDEFINED, NONE)
                /\ UNCHANGED sessionStore
           ELSE /\ sessionStore' = Put(sessionStore, handler.sessionId,
                                       [handler.session EXCEPT !.userId = handler.user.id])
                /\ response' = Http(handler.route, handler.session, 200,
                                    Omit(handler.user, "password"), handler.raw,
                                    UNDEFINED, NONE)
        /\ UNCHANGED <<storeVars, pending>>
    /\ ServerSide

\* the password member as updateUser gets it: hashed only if it is truthy
PatchedPassword(userData) ==
    IF "password" \in DOMAIN userData
    THEN IF Truthy(userData.password)
         THEN [userData EXCEPT !.password = bcryptHash(userData.password)]
         ELSE [userData EXCEPT !.password = PlainString(userData.password)]
    ELSE userData

\* PATCH /api/users/me
ApiPatchMe ==
    /\ backend = "server"
    /\ \E cookie \in Cookies, newId \in SessionIds, raw \in PatchUserBodies :
        /\ RandomId(sessionStore, cookie, newId, now)
        /\ LET hs == handleSession(sessionStore, cookie, newId, now)
               route == "PATCH /api/users/me"
               session == hs.sessions[hs.sessionId]
               body == parseBody(raw)
               schema == partial(insertUserSchema)
               userData == PatchedPassword(parse(schema, body))
               updated == updateUser(session.userId, userData)
           IN  IF ~requireAuth(session)
               THEN Reply(route, hs, 401, Message("Unauthorized"), raw, UNDEFINED, NONE)
               ELSE IF Rejected(body)
               THEN Reply(route, hs, 500, Message("Server error"), raw, UNDEFINED, NONE)
               ELSE IF ZodError(schema, body)
               THEN Reply(route, hs, 400, Message("Validation error"), raw, UNDEFINED, NONE)
               ELSE IF getUser(session.userId) = NONE
               THEN Reply(route, hs, 404, Message("User not found"), raw, UNDEFINED, NONE)
               ELSE /\ users' = updated
                    /\ sessionStore' = hs.sessions
                    /\ response' = Http(route, session, 200,
                                        Omit(updated[session.userId], "password"),
                                        raw, UNDEFINED, NONE)
                    /\ UNCHANGED <<userIdCounter, notificationPreferences,
                                   notificationPreferencesIdCounter,
                                   acUnits, acUnitIdCounter, pending>>
    /\ ClientSide

\* --------------------------------------------------- AC unit handlers
\* GET /api/ac-units
ApiGetAcUnits ==
    /\ backend = "server"
    /\ \E cookie \in Cookies, newId \in SessionIds :
        /\ RandomId(sessionStore, cookie, newId, now)
        /\ LET hs == handleSession(sessionStore, cookie, newId, now)
               route == "GET /api/ac-units"
               session == hs.sessions[hs.sessionId]
           IN  IF ~requireAuth(session)
               THEN Reply(route, hs, 401, Message("Unauthorized"), NONE, UNDEFINED, NONE)
               ELSE Reply(route, hs, 200,
                          JsonUnits(getAcUnitsByUserId(acUnits, session.userId)),
                          NONE, UNDEFINED, NONE)
    /\ ClientSide

\* { ...body, userId: req.session.userId }
WithUserId(body, userId) ==
    [value |-> Put(body.value, "userId", userId),
     type |-> Put(body.type, "userId", "number")]
\* the members an InsertAcUnit may leave out
AsInsertAcUnit(data) ==
    [userId |-> data.userId, location |-> data.location,
     lastServiceDate |-> IF "lastServiceDate" \in DOMAIN data
                         THEN data.lastServiceDate ELSE UNDEFINED,
     nextServiceDate |-> data.nextServiceDate]

\* POST /api/ac-units
ApiPostAcUnit ==
    /\ backend = "server"
    /\ \E cookie \in Cookies, newId \in SessionIds, raw \in PostAcUnitBodies :
        /\ RandomId(sessionStore, cookie, newId, now)
        /\ LET hs == handleSession(sessionStore, cookie, newId, now)
               route == "POST /api/ac-units"
               session == hs.sessions[hs.sessionId]
               body == parseBody(raw)
               withUser == WithUserId(body, session.userId)
               acUnitData == parse(insertAcUnitSchema, withUser)
               acUnit == createAcUnit(AsInsertAcUnit(acUnitData), acUnitIdCounter, now)
           IN  IF ~requireAuth(session)
               THEN Reply(route, hs, 401, Message("Unauthorized"), raw, UNDEFINED, NONE)
               ELSE IF Rejected(body)
               THEN Reply(route, hs, 500, Message("Server error"), raw, UNDEFINED, NONE)
               ELSE IF ZodError(insertAcUnitSchema, withUser)
               THEN Reply(route, hs, 400, Message("Validation error"), raw, UNDEFINED, NONE)
               ELSE /\ acUnitIdCounter <= MaxUnits
                    /\ acUnits' = Put(acUnits, acUnit.id, acUnit)
                    /\ acUnitIdCounter' = acUnitIdCounter + 1
                    /\ sessionStore' = hs.sessions
                    /\ response' = Http(route, session, 201, JsonUnit(acUnit),
                                        raw, UNDEFINED, acUnit)
                    /\ UNCHANGED <<users, userIdCounter, notificationPreferences,
                                   notificationPreferencesIdCounter, pending>>
    /\ ClientSide

\* the checks GET, PATCH and DELETE /api/ac-units/:id make before they act:
\* the status they end with, 0 when the request passes them
IdChecks_NoOwner(session, id) ==
    IF ~requireAuth(session) THEN 401
    ELSE IF isNaN(id) THEN 400
    ELSE IF ~hasAcUnit(acUnits, id) THEN 404
    ELSE 0
IdChecks(session, id) ==
    IF ~requireAuth(session) THEN 401
    ELSE IF isNaN(id) THEN 400
    ELSE IF ~hasAcUnit(acUnits, id) THEN 404
    ELSE IF acUnits[id].userId # session.userId THEN 403
    ELSE 0
IdCheckMessage(status) ==
    IF status = 401 THEN Message("Unauthorized")
    ELSE IF status = 400 THEN Message("Invalid ID")
    ELSE IF status = 404 THEN Message("AC unit not found")
    ELSE Message("Forbidden")

\* GET /api/ac-units/:id
ApiGetAcUnit ==
    /\ backend = "server"
    /\ \E cookie \in Cookies, newId \in SessionIds, segment \in IdSegments :
        /\ RandomId(sessionStore, cookie, newId, now)
        /\ LET hs == handleSession(sessionStore, cookie, newId, now)
               route == "GET /api/ac-units/:id"
               session == hs.sessions[hs.sessionId]
               id == parseInt(segment)
               failed == IdChecks(session, id)
           IN  IF failed # 0
               THEN Reply(route, hs, failed, IdCheckMessage(failed), segment, id, NONE)
               ELSE Reply(route, hs, 200, JsonUnit(acUnits[id]), segment, id, acUnits[id])
    /\ ClientSide

\* PATCH /api/ac-units/:id up to `await parseBody(req)`: the checks are made,
\* then the handler waits for the request body
ApiPatchAcUnitBegin ==
    /\ backend = "server"
    /\ \E cookie \in Cookies, newId \in SessionIds, segment \in IdSegments :
        /\ RandomId(sessionStore, cookie, newId, now)
        /\ LET hs == handleSession(sessionStore, cookie, newId, now)
               route == "PATCH /api/ac-units/:id"
               session == hs.sessions[hs.sessionId]
               id == parseInt(segment)
               failed == IdChecks(session, id)
           IN  IF failed # 0
               THEN Reply(route, hs, failed, IdCheckMessage(failed), segment, id, NONE)
               ELSE /\ Cardinality(pending) < MaxPending
                    /\ pending' = pending \cup
                           {[sessionUserId |-> session.userId, id |-> id,
                             acUnit |-> acUnits[id]]}
                    /\ sessionStore' = hs.sessions
                    /\ response' = [op |-> "awaiting body", route |-> route, id |-> id]
                    /\ UNCHANGED storeVars
    /\ ClientSide

\* PATCH /api/ac-units/:id from the arrival of the body on
ApiPatchAcUnitEnd ==
    /\ backend = "server"
    /\ \E handler \in pending, raw \in PatchAcUnitBodies :
        LET route == "PATCH /api/ac-units/:id"
            session == [userId |-> handler.sessionUserId]
            body == parseBody(raw)
            schema == partial(insertAcUnitSchema)
            acUnitData == parse(schema, body)
            updated == updateAcUnit(acUnits, handler.id, acUnitData)
            updatedAcUnit == IF hasAcUnit(updated, handler.id)
                             THEN JsonUnit(updated[handler.id]) ELSE NoBody
        IN  /\ pending' = pending \ {handler}
            /\ IF Rejected(body)
               THEN /\ response' = Http(route, session, 500, Message("Server error"),
                                        raw, handler.id, handler.acUnit)
                    /\ UNCHANGED storeVars
               ELSE IF ZodError(schema, body)
               THEN /\ response' = Http(route, session, 400, Message("Validation error"),
                                        raw, handler.id, handler.acUnit)
                    /\ UNCHANGED storeVars
               ELSE /\ acUnits' = updated
                    /\ response' = Http(route, session, 200, updatedAcUnit,
                                        raw, handler.id, handler.acUnit)
                    /\ UNCHANGED <<users, userIdCounter, notificationPreferences,
                                   notificationPreferencesIdCounter, acUnitIdCounter>>
    /\ UNCHANGED sessionStore
    /\ ClientSide

\* DELETE /api/ac-units/:id
ApiDeleteAcUnit ==
    /\ backend = "server"
    /\ \E cookie \in Cookies, newId \in SessionIds, segment \in IdSegments :
        /\ RandomId(sessionStore, cookie, newId, now)
        /\ LET hs == handleSession(sessionStore, cookie, newId, now)
               route == "DELETE /api/ac-units/:id"
               session == hs.sessions[hs.sessionId]
               id == parseInt(segment)
               failed == IdChecks(session, id)
           IN  IF failed # 0
               THEN Reply(route, hs, failed, IdCheckMessage(failed), segment, id, NONE)
               ELSE /\ acUnits' = deleteAcUnit(acUnits, id)
                    /\ sessionStore' = hs.sessions
                    /\ response' = Http(route, session, 204, NoBody, segment, id, acUnits[id])
                    /\ UNCHANGED <<users, userIdCounter, notificationPreferences,
                                   notificationPreferencesIdCounter, acUnitIdCounter,
                                   pending>>
    /\ ClientSide

\* GET /api/dashboard/stats
ApiGetDashboardStats ==
    /\ backend = "server"
    /\ \E cookie \in Cookies, newId \in SessionIds :
        /\ RandomId(sessionStore, cookie, newId, now)
        /\ LET hs == handleSession(sessionStore, cookie, newId, now)
               route == "GET /api/dashboard/stats"
               session == hs.sessions[hs.sessionId]
           IN  IF ~requireAuth(session)
               THEN Reply(route, hs, 401, Message("Unauthorized"), NONE, UNDEFINED, NONE)
               ELSE Reply(route, hs, 200,
                          getDashboardStats(acUnits, session.userId, now),
                          NONE, UNDEFINED, NONE)
    /\ ClientSide

\* ----------------------------------- notification-preference handlers
\* GET /api/notification-preferences
ApiGetNotificationPreferences ==
    /\ backend = "server"
    /\ \E cookie \in Cookies, newId \in SessionIds :
        /\ RandomId(sessionStore, cookie, newId, now)
        /\ LET hs == handleSession(sessionStore, cookie, newId, now)
               route == "GET /api/notification-preferences"
               session == hs.sessions[hs.sessionId]
               preferences == getNotificationPreferences(notificationPreferences,
                                                         session.userId)
               defaultPreferences ==
                   createNotificationPreferences(
                       [userId |-> session.userId, emailEnabled |-> TRUE,
                        smsEnabled |-> FALSE,
                        daysBeforeService |-> DefaultDaysBeforeService],
                       notificationPreferencesIdCounter)
           IN  IF ~requireAuth(session)
               THEN Reply(route, hs, 401, Message("Unauthorized"), NONE, UNDEFINED, NONE)
               ELSE IF preferences = NONE
               THEN /\ notificationPreferencesIdCounter <= MaxPreferences
                    /\ notificationPreferences' =
                           Put(notificationPreferences, defaultPreferences.id,
                               defaultPreferences)
                    /\ notificationPreferencesIdCounter' = notificationPreferencesIdCounter + 1
                    /\ sessionStore' = hs.sessions
                    /\ response' = Http(route, session, 200, defaultPreferences,
                                        NONE, UNDEFINED, NONE)
                    /\ UNCHANGED <<users, userIdCounter, acUnits, acUnitIdCounter, pending>>
               ELSE Reply(route, hs, 200, preferences, NONE, UNDEFINED, NONE)
    /\ ClientSide

\* PATCH /api/notification-preferences
ApiPatchNotificationPreferences ==
    /\ backend = "server"
    /\ \E cookie \in Cookies, newId \in SessionIds, raw \in PreferencesBodies :
        /\ RandomId(sessionStore, cookie, newId, now)
        /\ LET hs == handleSession(sessionStore, cookie, newId, now)
               route == "PATCH /api/notification-preferences"
               session == hs.sessions[hs.sessionId]
               body == parseBody(raw)
               preferencesSchema == partial(insertNotificationPreferencesSchema)
               preferencesData == parse(preferencesSchema, body)
               preferences == getNotificationPreferences(notificationPreferences,
                                                         session.userId)
               created ==
                   createNotificationPreferences(
                       [userId |-> IF "userId" \in DOMAIN preferencesData
                                   THEN preferencesData.userId ELSE session.userId,
                        emailEnabled |-> OrDefault(preferencesData, "emailEnabled"),
                        smsEnabled |-> OrDefault(preferencesData, "smsEnabled"),
                        daysBeforeService |-> OrDefault(preferencesData, "daysBeforeService")],
                       notificationPreferencesIdCounter)
               updated == updateNotificationPreferences(notificationPreferences,
                                                        session.userId, preferencesData)
           IN  IF ~requireAuth(session)
               THEN Reply(route, hs, 401, Message("Unauthorized"), raw, UNDEFINED, NONE)
               ELSE IF Rejected(body)
               THEN Reply(route, hs, 500, Message("Server error"), raw, UNDEFINED, NONE)
               ELSE IF ZodError(preferencesSchema, body)
               THEN Reply(route, hs, 400, Message("Validation error"), raw, UNDEFINED, NONE)
               ELSE IF preferences = NONE
               THEN /\ notificationPreferencesIdCounter <= MaxPreferences
                    /\ notificationPreferences' =
                           Put(notificationPreferences, created.id, created)
                    /\ notificationPreferencesIdCounter' = notificationPreferencesIdCounter + 1
                    /\ sessionStore' = hs.sessions
                    /\ response' = Http(route, session, 200, created, raw, UNDEFINED, NONE)
                    /\ UNCHANGED <<users, userIdCounter, acUnits, acUnitIdCounter, pending>>
               ELSE /\ notificationPreferences' = updated
                    /\ sessionStore' = hs.sessions
                    /\ response' = Http(route, session, 200, updated[preferences.id],
                                        raw, UNDEFINED, NONE)
                    /\ UNCHANGED <<users, userIdCounter, notificationPreferencesIdCounter,
                                   acUnits, acUnitIdCounter, pending>>
    /\ ClientSide

\* ------------------------- Firestore users/{userId}/settings/notifications
\* the Reminders form: zodResolver(notificationsSchema)
notificationsSchema(data) ==
    /\ data.daysBeforeService >= MinDaysBeforeService
    /\ data.daysBeforeService <= MaxDaysBeforeService
NotificationsFormValues ==
    [emailEnabled : BOOLEAN, smsEnabled : {FALSE}, daysBeforeService : DaysBeforeServiceValues]
\* getNotificationPreferences of the Firebase client
FbGetNotificationPreferences(docs, userId) ==
    IF userId \in DOMAIN docs THEN docs[userId]
    ELSE [emailEnabled |-> TRUE, smsEnabled |-> FALSE,
          daysBeforeService |-> DefaultDaysBeforeService]

FirebaseGetNotificationPreferences ==
    /\ backend = "firebase"
    /\ \E userId \in Users :
         response' = [op |-> "preferences", userId |-> userId,
                      stored |-> userId \in DOMAIN fbPreferences,
                      preferences |-> FbGetNotificationPreferences(fbPreferences, userId)]
    /\ UNCHANGED <<now, backend, acUnits, acUnitIdCounter, fbUnits, card, prevCard, page,
                   lastCreate, serverVars, browserVars, fbPreferences, sideVars>>

\* the Reminders form is submitted: handleSubmit validates, then
\* createOrUpdateNotificationPreferences writes the document
FirebaseSaveNotificationPreferences ==
    /\ backend = "firebase"
    /\ \E userId \in Users, data \in NotificationsFormValues :
         IF notificationsSchema(data)
         THEN /\ fbPreferences' = Put(fbPreferences, userId, data)
              /\ response' = [op |-> "saved", userId |-> userId, data |-> data]
         ELSE /\ response' = [op |-> "invalid", userId |-> userId, data |-> data]
              /\ UNCHANGED fbPreferences
    /\ UNCHANGED <<now, backend, acUnits, acUnitIdCounter, fbUnits, card, prevCard, page,
                   lastCreate, serverVars, browserVars, sideVars>>

\* ================================= browser (client/src/App.tsx, lib/auth.tsx)
\* A wouter location is the list of its path segments: "/" is <<>>
Root == <<>>
Path(segment) == <<segment>>
ProtectedRoutes == {Root, Path("profile"), Path("ac-units"), Path("reminders")}
PublicRoutes == {Path("login"), Path("signup")}
\* the paths a user may type; /dashboard has no Route and renders NotFound
Paths == ProtectedRoutes \cup PublicRoutes \cup {Path("dashboard")}
\* page.url().includes('/' + name)
UrlIncludes(path, name) == \E i \in DOMAIN path : path[i] = name

\* the Firebase Auth accounts and what is typed in the login form
Accounts ==
    {[uid |-> 1, email |-> "ann@x", password |-> "secret"],
     [uid |-> 2, email |-> "bob@x", password |-> "hunter22"]}
FormEmails == {"ann@x", "bob@x", "ann"}
FormPasswords == {"secret", "hunter22", "short"}
IsEmail(text) == text \in {"ann@x", "bob@x"}
\* zodResolver(loginSchema) of the login form
FormIsValid(data) == IsEmail(data.email) /\ Len(data.password) >= MinPasswordLength
\* signInWithEmailAndPassword: the uid signed in, null when it rejects
loginWithEmail(email, password) ==
    LET matching == {a \in Accounts : a.email = email /\ a.password = password}
    IN  IF matching = {} THEN NULL ELSE (CHOOSE a \in matching : TRUE).uid

IDLE == [stage |-> "idle"]
BrowserOnly ==
    UNCHANGED <<now, backend, acUnits, acUnitIdCounter, fbUnits, card, prevCard, page,
                lastCreate, serverVars, fbPreferences, sideVars>>
\* the toast login() shows
Toast(title) == [op |-> "toast", title |-> title]

\* the page is loaded at a path: AuthProvider mounts with user = null, isLoading = true
Goto ==
    /\ \E path \in Paths : location' = path
    /\ user' = NULL
    /\ isLoading' = TRUE
    /\ loginAttempt' = IDLE
    /\ response' = NONE
    /\ UNCHANGED firebaseUser
    /\ BrowserOnly

\* a wouter Link is followed: the location changes, the page is not reloaded
Navigate ==
    /\ loginAttempt.stage # "pending"
    /\ \E path \in Paths : location' = path
    /\ loginAttempt' = IDLE
    /\ UNCHANGED <<firebaseUser, user, isLoading, response>>
    /\ BrowserOnly

\* the onAuthStateChanged listener has run to its end
AuthStateChanged ==
    /\ loginAttempt.stage # "pending"
    /\ (user # firebaseUser \/ isLoading)
    /\ user' = firebaseUser
    /\ isLoading' = FALSE
    /\ UNCHANGED <<location, firebaseUser, loginAttempt, response>>
    /\ BrowserOnly

\* ProtectedRoute and PublicRoute: the redirects made while rendering
RenderRoute ==
    /\ ~isLoading
    /\ \/ /\ location \in ProtectedRoutes /\ user = NULL
          /\ location' = Path("login")
       \/ /\ location \in PublicRoutes /\ user # NULL
          /\ location' = Root
    /\ UNCHANGED <<firebaseUser, user, isLoading, loginAttempt, response>>
    /\ BrowserOnly

\* LoginForm.onSubmit up to `await loginWithEmail`: login() sets isLoading
LoginSubmit ==
    /\ location = Path("login") /\ ~isLoading /\ user = NULL
    /\ \E data \in [email : FormEmails, password : FormPasswords] :
        /\ FormIsValid(data)
        /\ loginAttempt' = [stage |-> "pending", data |-> data]
    /\ isLoading' = TRUE
    /\ UNCHANGED <<location, firebaseUser, user, response>>
    /\ BrowserOnly

\* Firebase answers: login() ends (finally: isLoading = false), then onSubmit
\* calls setLocation("/") after a success and sets the form error after a failure
LoginSettle ==
    /\ loginAttempt.stage = "pending"
    /\ isLoading' = FALSE
    /\ LET uid == loginWithEmail(loginAttempt.data.email, loginAttempt.data.password)
       IN  IF uid # NULL
           THEN /\ firebaseUser' = uid
                /\ response' = Toast("Logged in successfully")
                /\ location' = Root
                /\ loginAttempt' = [stage |-> "succeeded"]
           ELSE /\ response' = Toast("Login failed")
                /\ loginAttempt' = [stage |-> "failed"]
                /\ UNCHANGED <<firebaseUser, location>>
    /\ UNCHANGED user
    /\ BrowserOnly

\* logoutUser: Firebase signs the user out
Logout ==
    /\ firebaseUser # NULL
    /\ loginAttempt.stage # "pending"
    /\ firebaseUser' = NULL
    /\ loginAttempt' = IDLE
    /\ UNCHANGED <<location, user, isLoading, response>>
    /\ BrowserOnly

\* ============================== reminder e-mails (client/src/lib/emailService.ts)
\* a Date whose getTime() is NaN
InvalidDate == NaN
\* calculateDaysUntil(futureDate, fromDate) called at time t
calculateDaysUntil_Signed(futureDate, fromDate, t) ==
    LET future == IF isNaN(futureDate) THEN t + Day(NextWeekDays) ELSE futureDate
        from == IF isNaN(fromDate) THEN t ELSE fromDate
    IN  CeilDays(future - from)
calculateDaysUntil(futureDate, fromDate, t) ==
    LET future == IF isNaN(futureDate) THEN t + Day(NextWeekDays) ELSE futureDate
        from == IF isNaN(fromDate) THEN t ELSE fromDate
        diffTime == future - from
        diffDays == CeilDays(diffTime)
    IN  IF diffDays > 0 THEN diffDays ELSE 0

ReminderOffsets == (0 - Day(2))..Day(2)
ReminderDates == {NowStart + o : o \in ReminderOffsets} \cup {InvalidDate}
ReminderOnly ==
    UNCHANGED <<now, backend, acUnits, acUnitIdCounter, fbUnits, card, prevCard, page,
                lastCreate, serverVars, browserVars, fbPreferences, sideVars>>

\* sendServiceReminderEmail refuses an address without '@'
ReminderRecipients == {"ann@x", ""}
HasAt(address) == address \in {"ann@x", "bob@x"}
\* sendServiceReminder of lib/firebase.ts (the Reminders page): the e-mail goes
\* to EmailJS, which delivers it or fails, then the record is written
SendServiceReminder ==
    /\ Cardinality(DOMAIN fbReminders) < MaxReminders
    /\ \E serviceDate \in ReminderDates, userEmail \in ReminderRecipients,
          delivered \in BOOLEAN, docId \in 1..MaxReminders :
        LET validDate == IF isNaN(serviceDate) THEN now ELSE serviceDate
            daysUntil == calculateDaysUntil(validDate, now, now)
            success == HasAt(userEmail) /\ delivered
        IN  /\ docId \notin DOMAIN fbReminders
            /\ outbox' = IF success
                         THEN Append(outbox, [user_email |-> userEmail,
                                              days_until_service |-> daysUntil])
                         ELSE outbox
            /\ fbReminders' = Put(fbReminders, docId,
                                  [id |-> docId, sentTo |-> userEmail,
                                   serviceDate |-> TimestampFromDate(validDate),
                                   status |-> IF success THEN "sent" ELSE "failed"])
            /\ response' = [op |-> "reminder", futureDate |-> validDate, fromDate |-> now,
                             now |-> now, daysUntil |-> daysUntil, success |-> success]
    /\ UNCHANGED <<now, backend, acUnits, acUnitIdCounter, fbUnits, card, prevCard, page,
                   lastCreate, serverVars, browserVars, fbPreferences, authPending>>

\* sendServiceReminder of lib/supabase.ts (the unit card's "set reminder"):
\* a console.log and { success: true }
CardSetReminder ==
    /\ response' = [op |-> "reminder set", success |-> TRUE]
    /\ ReminderOnly

\* calculateDaysUntil called with both dates given
CalculateDaysUntil ==
    /\ \E futureDate \in ReminderDates, fromDate \in ReminderDates :
        response' = [op |-> "daysUntil", futureDate |-> futureDate, fromDate |-> fromDate,
                     now |-> now,
                     daysUntil |-> calculateDaysUntil(futureDate, fromDate, now)]
    /\ ReminderOnly

\* ======================================================== specifications
\* MemStorage and MemorySessionStore as constructed, no Firestore settings
ServerStart ==
    /\ users = EmptyMap
    /\ userIdCounter = 1
    /\ notificationPreferences = EmptyMap
    /\ notificationPreferencesIdCounter = 1
    /\ sessionStore = EmptyMap
    /\ pending = {}
    /\ fbPreferences = EmptyMap
    /\ fbReminders = EmptyMap
    /\ outbox = <<>>
    /\ authPending = {}
\* the login page before AuthProvider has heard from Firebase
BrowserStart ==
    /\ location = Path("login")
    /\ firebaseUser = NULL
    /\ user = NULL
    /\ isLoading = TRUE
    /\ loginAttempt = IDLE

\* the unit stores from construction on
Init ==
    /\ now = NowStart
    /\ backend \in Backends
    /\ acUnits = EmptyMap
    /\ acUnitIdCounter = 1
    /\ fbUnits = EmptyMap
    /\ card = NONE
    /\ prevCard = NONE
    /\ page = NONE
    /\ response = NONE
    /\ lastCreate = NONE
    /\ ServerStart
    /\ BrowserStart

Next ==
    \/ MemCreateAcUnit
    \/ MemGetAcUnitsByUserId
    \/ MemUpdateAcUnit
    \/ MemDeleteAcUnit
    \/ MemGetDashboardStats
    \/ FirebaseCreateAcUnit
    \/ FirebaseUpdateAcUnit
    \/ FirebaseGetAcUnits
    \/ FirebaseGetDashboardStats

Spec == Init /\ [][Next]_vars

\* a store holding the given units (created in this order at time t)
MemStoreOf(units, t) == [i \in DOMAIN units |-> createAcUnit(units[i], i, t)]
FbStoreOf(units, t) ==
    [k \in {<<units[i].userId, i>> : i \in DOMAIN units} |->
        FbAcUnitDoc(k[1], k[2], units[k[2]], t)]

InitStore(units) ==
    /\ backend \in Backends
    /\ acUnits = (IF backend = "server" THEN MemStoreOf(units, 0) ELSE EmptyMap)
    /\ acUnitIdCounter = (IF backend = "server" THEN Len(units) + 1 ELSE 1)
    /\ fbUnits = (IF backend = "firebase" THEN FbStoreOf(units, 0) ELSE EmptyMap)
    /\ card = NONE
    /\ prevCard = NONE
    /\ page = NONE
    /\ response = NONE
    /\ lastCreate = NONE
    /\ ServerStart
    /\ BrowserStart

\* the status engine: one unit with any service date, the clock running
CardDates == 0..MaxDate
InitCard ==
    /\ now = NowStart
    /\ \E d \in CardDates :
         InitStore(<<[userId |-> 1, location |-> "Garage",
                      lastServiceDate |-> NULL, nextServiceDate |-> d]>>)

NextCard == RenderCard \/ RenderReminders \/ Tick

SpecCard == InitCard /\ [][NextCard]_vars

\* the aggregators: a store holding up to MaxStatUnits units around the boundaries
StatOffsets ==
    {0 - 1, 0, Day(UpcomingDays), Day(UpcomingDays) + 1, Day(45)}
StatNextDates == {NowStart + o : o \in StatOffsets}
StatLastDates == {NULL, NowStart}
StatUnits ==
    [userId : Users, location : {"Garage"},
     lastServiceDate : StatLastDates, nextServiceDate : StatNextDates]

InitStats ==
    /\ now = NowStart
    /\ \E n \in 0..MaxStatUnits : \E units \in [1..n -> StatUnits] : InitStore(units)

NextStats == MemGetDashboardStats \/ FirebaseGetDashboardStats \/ RenderCard

SpecStats == InitStats /\ [][NextStats]_vars

\* the HTTP server from its start, and the Firestore settings document
NextApi ==
    \/ ApiRegister
    \/ ApiLogin
    \/ ApiLogout
    \/ ApiGetMe
    \/ ApiPatchMe
    \/ ApiGetAcUnits
    \/ ApiPostAcUnit
    \/ ApiGetAcUnit
    \/ ApiPatchAcUnitBegin
    \/ ApiDeleteAcUnit
    \/ ApiGetDashboardStats
    \/ ApiGetNotificationPreferences
    \/ ApiPatchNotificationPreferences
    \/ FirebaseGetNotificationPreferences
    \/ FirebaseSaveNotificationPreferences

SpecApi == Init /\ [][NextApi]_vars

\* the auth handlers with register and login suspended in bcryptjs
InitAuth == Init /\ backend = "server"
NextAuth ==
    \/ ApiRegisterBegin
    \/ ApiRegisterEnd
    \/ ApiLoginBegin
    \/ ApiLoginEnd
    \/ ApiLogout
    \/ ApiGetMe
    \/ ApiPatchMe

SpecAuth == InitAuth /\ [][NextAuth]_vars

\* the sessions of the auth handlers while the clock runs past their expiry
NextSession ==
    \/ ApiRegister
    \/ ApiLogin
    \/ ApiLogout
    \/ ApiGetMe
    \/ ApiGetAcUnits
    \/ Tick

SpecSession == InitAuth /\ [][NextSession]_vars

\* the unit handlers on a storage that holds units, one browser signed in,
\* and the Firestore unit documents
SeedUsers ==
    <<[username |-> "ann", email |-> "ann@x", password |-> bcryptHash("secret")],
      [username |-> "bob", email |-> "bob@x", password |-> bcryptHash("")]>>
SeedAcUnits ==
    <<[userId |-> 1, location |-> "Garage",
       lastServiceDate |-> NULL, nextServiceDate |-> NowStart + Day(5)],
      [userId |-> 2, location |-> "Attic",
       lastServiceDate |-> NowStart - Day(2), nextServiceDate |-> NowStart - Day(1)]>>
SeedPreferences(userId) ==
    createNotificationPreferences(
        [userId |-> userId, emailEnabled |-> TRUE, smsEnabled |-> FALSE,
         daysBeforeService |-> DefaultDaysBeforeService], userId)
SeedSession(userId) ==
    [id |-> 1, userId |-> userId, createdAt |-> NowStart, expires |-> NowStart + SessionMaxAge]
InitUnits ==
    /\ now = NowStart
    /\ backend \in Backends
    /\ fbUnits = EmptyMap
    /\ card = NONE
    /\ prevCard = NONE
    /\ page = NONE
    /\ response = NONE
    /\ lastCreate = NONE
    /\ pending = {}
    /\ fbPreferences = EmptyMap
    /\ fbReminders = EmptyMap
    /\ outbox = <<>>
    /\ authPending = {}
    /\ BrowserStart
    /\ IF backend = "firebase"
       THEN /\ users = EmptyMap
            /\ userIdCounter = 1
            /\ notificationPreferences = EmptyMap
            /\ notificationPreferencesIdCounter = 1
            /\ sessionStore = EmptyMap
            /\ acUnits = EmptyMap
            /\ acUnitIdCounter = 1
       ELSE /\ users = [i \in DOMAIN SeedUsers |-> createUser(SeedUsers[i], i, 0)]
            /\ userIdCounter = Len(SeedUsers) + 1
            /\ notificationPreferences = [i \in DOMAIN SeedUsers |-> SeedPreferences(i)]
            /\ notificationPreferencesIdCounter = Len(SeedUsers) + 1
            /\ \E userId \in Users : sessionStore = [i \in {1} |-> SeedSession(userId)]
            /\ acUnits = MemStoreOf(SeedAcUnits, 0)
            /\ acUnitIdCounter = Len(SeedAcUnits) + 1
NextUnits ==
    \/ ApiGetAcUnits
    \/ ApiPostAcUnit
    \/ ApiGetAcUnit
    \/ ApiPatchAcUnitBegin
    \/ ApiPatchAcUnitEnd
    \/ ApiDeleteAcUnit
    \/ FirebaseCreateAcUnit
    \/ FirebaseUpdateAcUnit

SpecUnits == InitUnits /\ [][NextUnits]_vars

\* the login page in the browser
InitLogin == Init /\ backend = "firebase"
NextLogin ==
    Goto \/ Navigate \/ AuthStateChanged \/ RenderRoute \/ LoginSubmit \/ LoginSettle \/ Logout

SpecLogin == InitLogin /\ [][NextLogin]_vars

\* the reminder e-mails, the clock running
NextReminder == SendServiceReminder \/ CardSetReminder \/ CalculateDaysUntil \/ Tick

SpecReminder == InitLogin /\ [][NextReminder]_vars

\* ================================================================ claims
\* a difference of instants in whole days, truncated toward zero
TruncDays(diffTime) == Sign(diffTime) * (Abs(diffTime) \div TicksPerDay)
CardShown == card.op = "card"
CardNext == ParseISO(card.acUnit.nextServiceDate)
StatsShown == response.op = "stats"
\* the units of the user whose statistics are shown (active backend)
StatsUnits == ClientUnits(response.userId)

\* C1: the card shows exactly one status, decided by the whole-day difference
\* d between nextServiceDate and now, truncated toward zero: Overdue iff d < 0
\* (the label shows abs(d)), Upcoming iff 0 <= d <= 7, Normal iff d > 7;
\* a date five days after now gives Upcoming with daysRemaining = 5.
C1_CardStatus ==
    CardShown =>
        LET d == TruncDays(CardNext - card.now)
        IN  /\ card.daysRemaining = d
            /\ card.status \in {"Overdue", "Upcoming", "Normal"}
            /\ (card.status = "Overdue") <=> (d < 0)
            /\ (card.status = "Upcoming") <=> (0 <= d /\ d <= 7)
            /\ (card.status = "Normal") <=> (d > 7)
            /\ (d < 0) => card.label = <<"Overdue by", Abs(d)>>
            /\ (CardNext = card.now + Day(5)) =>
                  (card.status = "Upcoming" /\ card.daysRemaining = 5)

C1_Witness ==
    /\ CardShown
    /\ CardNext = card.now + Day(5)
    /\ card.status = "Upcoming"

\* C2: a unit whose nextServiceDate falls on the calendar day before the
\* current day is shown Overdue by the card, with a negative daysRemaining.
C2_YesterdayIsOverdue ==
    (CardShown /\ CalDay(CardNext) = CalDay(card.now) - 1) =>
        (card.status = "Overdue" /\ card.daysRemaining < 0)

\* C3: for a nextServiceDate equal to now, daysRemaining is 0 and the unit is
\* Upcoming/Urgent, never Overdue, on the card and in the Reminders page's
\* lists and labels.
C3_DueNow ==
    /\ (CardShown /\ CardNext = card.now) =>
          (card.daysRemaining = 0 /\ card.status = "Upcoming")
    /\ (page.op = "page") =>
          /\ \A i \in DOMAIN page.overdueUnits :
                ParseISO(page.overdueUnits[i].nextServiceDate) # page.today
          /\ \A i \in DOMAIN page.rows :
                ParseISO(page.rows[i].unit.nextServiceDate) = page.today =>
                    /\ page.rows[i].daysRemaining = 0
                    /\ page.rows[i].status = "Urgent"
                    /\ page.rows[i].timeLeft = <<"days remaining", 0>>
          /\ \A i \in DOMAIN ClientUnits(page.userId) :
                ParseISO(ClientUnits(page.userId)[i].nextServiceDate) = page.today =>
                    \E j \in DOMAIN page.upcomingUnits :
                        page.upcomingUnits[j] = ClientUnits(page.userId)[i]

C3_Witness ==
    /\ CardShown /\ CardNext = card.now /\ card.status = "Upcoming"
    /\ page.op = "page"
    /\ \E i \in DOMAIN page.rows :
          /\ ParseISO(page.rows[i].unit.nextServiceDate) = page.today
          /\ page.rows[i].status = "Urgent"

\* the same unit rendered by the card on one day and again exactly one day later
CardPair ==
    /\ CardShown /\ prevCard.op = "card"
    /\ card.acUnit = prevCard.acUnit
    /\ card.now = prevCard.now + Day(1)

\* C4 (as stated): classifying a date against today and against today+1 never
\* reports Overdue both times.
C4_NotBothOverdue ==
    CardPair => ~(prevCard.status = "Overdue" /\ card.status = "Overdue")

\* C4 (amended): for a date not earlier than today's instant the two
\* classifications never both report Overdue; for a date a whole day or more
\* before today both report Overdue.
C4_NotBothOverdueFromToday ==
    CardPair =>
        /\ (CardNext >= prevCard.now) =>
              ~(prevCard.status = "Overdue" /\ card.status = "Overdue")
        /\ (CardNext <= prevCard.now - Day(1)) =>
              (prevCard.status = "Overdue" /\ card.status = "Overdue")

C4_Witness ==
    /\ CardPair
    /\ CardNext >= prevCard.now
    /\ card.status = "Overdue"

\* the whole-day difference an aggregator computes for one unit
AggregatorDays(unit, t) ==
    IF backend = "server" THEN CeilDays(ParseISO(unit.nextServiceDate) - t)
    ELSE FloorDays(ParseISO(unit.nextServiceDate) - t)

\* C5: in each aggregator upcomingServices is the number of the user's units
\* with 0 < daysRemaining <= 30, daysRemaining being the aggregator's whole-day
\* difference between nextServiceDate and now.
C5_UpcomingCount ==
    StatsShown =>
        LET InWindow(u, t) == 0 < AggregatorDays(u, t) /\ AggregatorDays(u, t) <= 30
        IN  response.upcomingServices = Cardinality({i \in DOMAIN StatsUnits : InWindow(StatsUnits[i], response.now)})

\* C6: in each aggregator overdueServices is the number of the user's units
\* whose card shows Overdue (daysRemaining < 0 by the card's whole-day
\* difference).
C6_OverdueCountMatchesCard ==
    StatsShown =>
        LET ShownOverdue(u, t) == AcUnitCard(u, t).status = "Overdue"
        IN  response.overdueServices = Cardinality({i \in DOMAIN StatsUnits : ShownOverdue(StatsUnits[i], response.now)})

\* C7: in each aggregator servicesCompleted is the number of the user's units
\* with a non-null lastServiceDate on or before now and a nextServiceDate
\* strictly after now.
C7_CompletedCount ==
    StatsShown =>
        LET InGoodStanding(u, t) ==
                /\ u.lastServiceDate # JsonNull
                /\ ParseISO(u.lastServiceDate) <= t
                /\ ParseISO(u.nextServiceDate) > t
        IN  response.servicesCompleted =
                Cardinality({i \in DOMAIN StatsUnits : InGoodStanding(StatsUnits[i], response.now)})

\* C8: the counts of one aggregator result are consistent: totalUnits is the
\* number of the user's units, servicesCompleted <= totalUnits and
\* overdueServices + upcomingServices <= totalUnits.
C8_CountsConsistent ==
    StatsShown =>
        /\ response.totalUnits = Len(ClientUnits(response.userId))
        /\ response.servicesCompleted <= response.totalUnits
        /\ response.overdueServices + response.upcomingServices <= response.totalUnits

C8_Witness ==
    /\ StatsShown
    /\ response.overdueServices >= 1
    /\ response.upcomingServices >= 1
    /\ response.overdueServices + response.upcomingServices = response.totalUnits

\* C9: a unit whose nextServiceDate is now + 45 days is Normal on the card and
\* is counted neither in upcomingServices nor in overdueServices.
C9_FortyFiveDays ==
    /\ (CardShown /\ CardNext = card.now + Day(45)) => card.status = "Normal"
    /\ StatsShown =>
          LET NotAt45(u, t) == ParseISO(u.nextServiceDate) # t + Day(45)
          IN  response.upcomingServices + response.overdueServices
                  <= Cardinality({i \in DOMAIN StatsUnits : NotAt45(StatsUnits[i], response.now)})

C9_Witness ==
    /\ CardShown /\ CardNext = card.now + Day(45) /\ card.status = "Normal"
    /\ StatsShown /\ response.userId = card.acUnit.userId
    /\ response.totalUnits >= 1
    /\ response.upcomingServices = 0 /\ response.overdueServices = 0

\* the nextServiceDate of a fetched unit as an instant
FetchedNext(u) ==
    IF backend = "server" THEN u.nextServiceDate ELSE ParseISO(u.nextServiceDate)

\* C10: a unit created for a user who had none, then a fetch of that user's
\* units: exactly one unit, with the location and nextServiceDate given; a
\* fetch of another user's units does not return it.
C10_RoundTrip ==
    (response.op = "units" /\ lastCreate.op = "create" /\ lastCreate.wasEmpty) =>
        IF response.userId = lastCreate.userId
        THEN /\ Len(response.units) = 1
             /\ response.units[1].location = lastCreate.location
             /\ FetchedNext(response.units[1]) = lastCreate.nextServiceDate
             /\ response.units[1].userId = lastCreate.userId
        ELSE \A i \in DOMAIN response.units :
                response.units[i].userId # lastCreate.userId

C10_Witness ==
    /\ response.op = "units" /\ lastCreate.op = "create" /\ lastCreate.wasEmpty
    /\ response.userId = lastCreate.userId
    /\ Len(response.units) = 1
    /\ response.units[1].location = "Garage"

\* ------------------------------------------------- claims on the server
IdRoutes ==
    {"GET /api/ac-units/:id", "PATCH /api/ac-units/:id", "DELETE /api/ac-units/:id"}
\* a step in which a handler of a route with an :id made its checks and answered
IdRequestAnswered ==
    /\ response'.op = "http"
    /\ response'.route \in IdRoutes
    /\ pending' = pending

OpenEndpoints ==
    {"POST /api/auth/register", "POST /api/auth/login", "POST /api/auth/logout"}

\* C12: a request to any endpoint but register, login and logout whose session
\* has no userId is answered 401, and no user, unit or notification-preference
\* record is created, changed or deleted by it.
C12_Unauthorized ==
    [][(/\ response'.op = "http"
        /\ response'.route \notin OpenEndpoints
        /\ response'.sessionUserId = UNDEFINED)
         => /\ response'.status = 401
            /\ users' = users
            /\ acUnits' = acUnits
            /\ notificationPreferences' = notificationPreferences]_vars

C12_Witness ==
    /\ response.op = "http"
    /\ response.route = "PATCH /api/notification-preferences"
    /\ response.sessionUserId = UNDEFINED
    /\ response.status = 401
    /\ users # EmptyMap
    /\ notificationPreferences # EmptyMap

\* the schema each handler parses its body with
BodyRoutes ==
    {"POST /api/auth/register", "POST /api/auth/login", "PATCH /api/users/me",
     "POST /api/ac-units", "PATCH /api/ac-units/:id", "PATCH /api/notification-preferences"}
SchemaOfRoute(route) ==
    IF route = "POST /api/auth/register" THEN insertUserSchema
    ELSE IF route = "POST /api/auth/login" THEN loginSchema
    ELSE IF route = "PATCH /api/users/me" THEN partial(insertUserSchema)
    ELSE IF route = "POST /api/ac-units" THEN insertAcUnitSchema
    ELSE IF route = "PATCH /api/ac-units/:id" THEN partial(insertAcUnitSchema)
    ELSE partial(insertNotificationPreferencesSchema)
\* a step in which a handler read the body of its request and answered
BodyRequestAnswered ==
    /\ response'.op = "http"
    /\ response'.route \in BodyRoutes
    /\ response'.status # 401
    /\ response'.route = "PATCH /api/ac-units/:id" => pending' # pending
StoreUnchanged ==
    /\ users' = users
    /\ userIdCounter' = userIdCounter
    /\ acUnits' = acUnits
    /\ acUnitIdCounter' = acUnitIdCounter
    /\ notificationPreferences' = notificationPreferences
    /\ notificationPreferencesIdCounter' = notificationPreferencesIdCounter

\* C13: a handler whose body fails its schema answers 400 with a message, one
\* whose body is no JSON answers 500; neither changes the store.
C13_ParseFailures ==
    [][BodyRequestAnswered =>
          LET r == response'
              sent == r.request
              object == IF r.route = "POST /api/ac-units"
                        THEN [value |-> Put(sent.value, "userId", r.sessionUserId),
                              type |-> Put(sent.type, "userId", "number")]
                        ELSE IF sent.syntax = "empty"
                        THEN [value |-> EmptyMap, type |-> EmptyMap]
                        ELSE sent
          IN  /\ (sent.syntax = "invalid")
                    => /\ r.status = 500
                       /\ r.body = [message |-> "Server error"]
                       /\ StoreUnchanged
              /\ (sent.syntax # "invalid" /\ ZodError(SchemaOfRoute(r.route), object))
                    => /\ r.status = 400
                       /\ "message" \in DOMAIN r.body /\ r.body.message # ""
                       /\ StoreUnchanged]_vars

C13_Witness ==
    /\ response.op = "http"
    /\ response.route = "PATCH /api/users/me"
    /\ response.request.syntax = "invalid"
    /\ response.status = 500
    /\ response.sessionUserId \in DOMAIN users

\* C14: the password stored for every user is the output of bcrypt.hash,
\* never the string a request supplied (the empty string included).
C14_PasswordsHashed ==
    \A id \in DOMAIN users : users[id].password.bcrypt

\* C15: whatever POST and PATCH /api/ac-units and the Firebase createAcUnit
\* and updateAcUnit have done, every stored unit has a nextServiceDate that
\* is not null.
C15_NextServiceDatePresent ==
    /\ \A id \in DOMAIN acUnits :
          acUnits[id].nextServiceDate # NULL /\ acUnits[id].nextServiceDate # UNDEFINED
    /\ \A key \in DOMAIN fbUnits :
          fbUnits[key].nextServiceDate # NullTimestamp

C15_Witness ==
    /\ response.op = "http"
    /\ response.route = "PATCH /api/ac-units/:id"
    /\ response.status = 200
    /\ response.id \in DOMAIN acUnits
    /\ acUnits[response.id].location # response.acUnit.location

\* the members a preferences request gave (none for an empty body or a GET)
RequestedPreferences(r) ==
    IF r.route = "PATCH /api/notification-preferences" /\ r.request.syntax = "json"
    THEN r.request.value ELSE EmptyMap
PreferenceFields == {"emailEnabled", "smsEnabled", "daysBeforeService"}

\* C16: preferences created at registration, or by GET or PATCH
\* /api/notification-preferences when the user has none, hold emailEnabled =
\* true, smsEnabled = false and daysBeforeService = 7 in every field the
\* request did not give; Firebase getNotificationPreferences returns the same
\* three values when no document exists.
C16_SameDefaults ==
    [][/\ (notificationPreferencesIdCounter' # notificationPreferencesIdCounter) =>
            LET created == notificationPreferences'[notificationPreferencesIdCounter]
                given == RequestedPreferences(response')
            IN  /\ response'.body = IF response'.route = "POST /api/auth/register"
                                    THEN response'.body ELSE created
                /\ "emailEnabled" \notin DOMAIN given => created.emailEnabled = TRUE
                /\ "smsEnabled" \notin DOMAIN given => created.smsEnabled = FALSE
                /\ "daysBeforeService" \notin DOMAIN given => created.daysBeforeService = 7
                /\ \A f \in PreferenceFields \cap DOMAIN given : created[f] = given[f]
       /\ (response'.op = "preferences" /\ ~response'.stored) =>
            /\ response'.preferences.emailEnabled = TRUE
            /\ response'.preferences.smsEnabled = FALSE
            /\ response'.preferences.daysBeforeService = 7]_vars

C16_Witness ==
    /\ response.op = "http"
    /\ response.route = "PATCH /api/notification-preferences"
    /\ response.status = 200
    /\ response.request.syntax = "json"
    /\ "daysBeforeService" \in DOMAIN response.request.value
    /\ response.body.id = 2
    /\ notificationPreferences[2] = response.body
    /\ response.body.emailEnabled /\ ~response.body.smsEnabled

\* a PATCH /api/notification-preferences that gave a number for daysBeforeService
DaysBeforeServicePatched(r) ==
    /\ r.op = "http"
    /\ r.route = "PATCH /api/notification-preferences"
    /\ r.status # 401
    /\ r.request.syntax = "json"
    /\ "daysBeforeService" \in DOMAIN r.request.value
    /\ r.request.type.daysBeforeService = "number"
OutOfRange(d) == d < 1 \/ d > 30

\* C17: only the Reminders form keeps daysBeforeService within 1..30. PATCH
\* /api/notification-preferences with an integer outside 1..30 answers 200 and
\* stores the value, a GET answers with the stored record, and the form
\* refuses to save such a value.
C17_BoundInFormOnly ==
    [][/\ (DaysBeforeServicePatched(response') /\ response' # response) =>
            LET r == response'
                d == r.request.value.daysBeforeService
                stored == getNotificationPreferences(notificationPreferences',
                                                     r.sessionUserId)
            IN  /\ r.status = 200
                /\ r.body.daysBeforeService = d
                /\ stored # NONE /\ stored.daysBeforeService = d
       /\ (/\ response'.op = "http"
           /\ response'.route = "GET /api/notification-preferences"
           /\ response'.status = 200) =>
            response'.body = getNotificationPreferences(notificationPreferences',
                                                        response'.sessionUserId)
       /\ (response'.op \in {"saved", "invalid"} /\ response' # response) =>
            /\ (response'.op = "invalid") = OutOfRange(response'.data.daysBeforeService)
            /\ response'.op = "invalid" => fbPreferences' = fbPreferences
       /\ \A userId \in DOMAIN fbPreferences' :
            ~OutOfRange(fbPreferences'[userId].daysBeforeService)]_vars

C17_Witness ==
    /\ response.op = "http"
    /\ response.route = "GET /api/notification-preferences"
    /\ response.status = 200
    /\ OutOfRange(response.body.daysBeforeService)
    /\ response.body.id \in DOMAIN notificationPreferences
    /\ notificationPreferences[response.body.id].daysBeforeService = 31

\* the steps open to a PATCH handler that has passed its checks for a unit and
\* waits for its body, and to a DELETE of that unit arriving meanwhile
DeleteOvertakes(handler) ==
    /\ ApiDeleteAcUnit
    /\ response'.status = 204
    /\ response'.id = handler.id
    /\ handler \in pending'
    /\ ~hasAcUnit(acUnits', handler.id)
EditApplied(handler) ==
    /\ ApiPatchAcUnitEnd
    /\ handler \notin pending'
    /\ response'.status = 200
    /\ hasAcUnit(acUnits', handler.id)
    /\ acUnits'[handler.id] # acUnits[handler.id]
    /\ response'.body = JsonUnit(acUnits'[handler.id])
EditAfterDelete(handler) ==
    /\ ApiPatchAcUnitEnd
    /\ handler \notin pending'
    /\ response'.status = 200
    /\ response'.body = NoBody
    /\ acUnits' = acUnits
\* the answer of a PATCH handler that got as far as reading its body
PatchBodyAnswered ==
    /\ response.op = "http"
    /\ response.route = "PATCH /api/ac-units/:id"
    /\ response.acUnit # NONE

C19_LoginReachesDashboard ==
    loginAttempt.stage = "succeeded" =>
        UrlIncludes(location, "dashboard") \/ UrlIncludes(location, "reminders")

\* ---------------------------------------------- claims on the reminder e-mails
\* the least whole number of days that is not less than diffTime
WholeDaysUp(diffTime) ==
    LET span == IF diffTime < 0 THEN 0 - diffTime ELSE diffTime
    IN  CHOOSE n \in (0 - span)..span :
            n * TicksPerDay >= diffTime /\ (n - 1) * TicksPerDay < diffTime
DaysUntilAnswered == response # NONE /\ response.op \in {"daysUntil", "reminder"}

\* C20: calculateDaysUntil never returns a negative number; for two valid
\* dates it returns the difference in days rounded up when that is positive
\* and 0 otherwise, so a date not after fromDate gives 0.
C20_DaysUntilNotNegative ==
    DaysUntilAnswered =>
        /\ response.daysUntil >= 0
        /\ (~isNaN(response.futureDate) /\ ~isNaN(response.fromDate)) =>
              LET days == WholeDaysUp(response.futureDate - response.fromDate)
              IN  /\ response.daysUntil = IF days > 0 THEN days ELSE 0
                  /\ response.futureDate <= response.fromDate => response.daysUntil = 0

C20_Witness ==
    /\ DaysUntilAnswered
    /\ response.op = "daysUntil"
    /\ ~isNaN(response.futureDate) /\ ~isNaN(response.fromDate)
    /\ response.futureDate + TicksPerDay < response.fromDate
    /\ response.daysUntil = 0

\* a reminder was triggered, from the unit card or from the Reminders page
ReminderTriggered ==
    /\ response' # response
    /\ response'.op \in {"reminder", "reminder set"}

\* C21: each reminder triggered from the unit card or the Reminders page
\* writes exactly one reminder record and sends no e-mail.
C21_ReminderOnlyLogged ==
    [][ReminderTriggered =>
          /\ Cardinality(DOMAIN fbReminders') = Cardinality(DOMAIN fbReminders) + 1
          /\ outbox' = outbox]_vars

\* ------------------------------------------- claims on the boundary at now
\* the aggregator answered for a user all of whose units are due at this instant
AllDueNow ==
    /\ response # NONE
    /\ response.op = "stats"
    /\ response.now = now
    /\ response.totalUnits > 0
    /\ IF response.backend = "server"
       THEN \A id \in DOMAIN acUnits :
               acUnits[id].userId = response.userId => acUnits[id].nextServiceDate = now
       ELSE \A key \in DOMAIN fbUnits :
               key[1] = response.userId =>
                   TimestampToDate(fbUnits[key].nextServiceDate) = now

C24_UniqueUsers ==
    \A a, b \in DOMAIN users :
        a # b => /\ users[a].username # users[b].username
                 /\ users[a].email # users[b].email

\* the preference records held for a user
PreferencesOf(userId) ==
    {id \in DOMAIN notificationPreferences : notificationPreferences[id].userId = userId}

\* C25: whatever register, GET and PATCH /api/notification-preferences
\* requests were served, every registered user has exactly one preference
\* record, and every record belongs to a registered user.
C25_OneRecordPerUser ==
    /\ \A userId \in DOMAIN users : Cardinality(PreferencesOf(userId)) = 1
    /\ \A id \in DOMAIN notificationPreferences :
          notificationPreferences[id].userId \in DOMAIN users

C27_LogoutIsFinal ==
    [][\A id \in SessionIds :
          (id \notin DOMAIN sessionStore /\ id \in DOMAIN sessionStore') =>
              sessionStore'[id].userId = UNDEFINED]_vars

\* the session handleSession creates at time t under newId
FreshSession(newId, t) ==
    [id |-> newId, userId |-> UNDEFINED, createdAt |-> t, expires |-> t + SessionMaxAge]
AuthenticatedAnswer(r) ==
    /\ r.op = "http"
    /\ r.route \in {"GET /api/auth/me", "GET /api/ac-units"}
    /\ r.status # 401

\* C28: every session expires 24 hours after its creation and no request
\* moves that instant; a request whose cookie names a session with expires <
\* now gets a fresh session without userId in its place and is answered as
\* unauthenticated.
C28_SessionExpiry ==
    [][/\ \A id \in DOMAIN sessionStore' :
             sessionStore'[id].expires = sessionStore'[id].createdAt + SessionMaxAge
       /\ \A id \in DOMAIN sessionStore \cap DOMAIN sessionStore' :
             sessionStore'[id].createdAt = sessionStore[id].createdAt
                 => sessionStore'[id].expires = sessionStore[id].expires
       /\ \A cookie \in DOMAIN sessionStore, newId \in SessionIds :
             (sessionStore[cookie].expires < now
                  /\ RandomId(sessionStore, cookie, newId, now)) =>
                 LET hs == handleSession(sessionStore, cookie, newId, now)
                 IN  /\ hs.sessions[hs.sessionId] = FreshSession(newId, now)
                     /\ ~requireAuth(hs.sessions[hs.sessionId])
                     /\ cookie \in DOMAIN hs.sessions =>
                            hs.sessions[cookie] = FreshSession(cookie, now)
       /\ (AuthenticatedAnswer(response') /\ response' # response) =>
             \E id \in DOMAIN sessionStore' :
                 /\ sessionStore'[id].userId = response'.sessionUserId
                 /\ sessionStore'[id].expires >= now']_vars

C28_Witness ==
    /\ response.op = "http"
    /\ response.route = "GET /api/auth/me"
    /\ response.status = 401
    /\ users # EmptyMap
    /\ now > NowStart + SessionMaxAge
    /\ \E id \in DOMAIN sessionStore : sessionStore[id] = FreshSession(id, now)

\* ------------------------------------------------ claims on response bodies
UserRoutes ==
    {"POST /api/auth/register", "POST /api/auth/login", "GET /api/auth/me",
     "PATCH /api/users/me"}

\* C30: no body sent by register, login, GET /api/auth/me or PATCH
\* /api/users/me has a password member, hashed or plain.
C30_NoPasswordInBody ==
    (response.op = "http" /\ response.route \in UserRoutes) =>
        "password" \notin DOMAIN response.body

C30_Witness ==
    /\ response.op = "http"
    /\ response.route = "PATCH /api/users/me"
    /\ response.status = 200
    /\ response.request.syntax = "json"
    /\ "password" \in DOMAIN response.request.value
    /\ response.body.id \in DOMAIN users
    /\ response.body = Omit(users[response.body.id], "password")

\* ------------------------------------------------ claims on the Reminders page
InList(list, unit) == \E i \in DOMAIN list : list[i] = unit

\* C29: on the Reminders page no unit is in both the overdue and the upcoming
\* list, every row of a unit of overdueUnits shows the Overdue status with
\* "N days overdue", and every row of a unit of upcomingUnits shows Urgent or
\* Upcoming.
C29_ListsAgreeWithLabels ==
    (page.op = "page") =>
        /\ \A i \in DOMAIN page.overdueUnits :
             ~InList(page.upcomingUnits, page.overdueUnits[i])
        /\ \A i \in DOMAIN page.rows :
             /\ InList(page.overdueUnits, page.rows[i].unit) =>
                  /\ page.rows[i].status = "Overdue"
                  /\ page.rows[i].timeLeft[1] = "days overdue"
             /\ InList(page.upcomingUnits, page.rows[i].unit) =>
                  page.rows[i].status \in {"Urgent", "Upcoming"}

====
